---- MODULE Spec2Model ----
(***************************************************************************)
(* A model of the prlens review pipeline (packages/core/src/prlens_core).  *)
(*                                                                         *)
(* Text is modelled as a sequence of one-character strings, so that the    *)
(* string operations of the code (splitlines, startswith, split, int,      *)
(* strip, substring test) are computed and not assumed.                    *)
(*                                                                         *)
(* Six specifications share the module:                                    *)
(*   SpecPatch  the two pure patch scanners of reviewer.py applied to      *)
(*              every patch text built from the sample lines;              *)
(*   SpecFile   the calls of process_file that share one queued set, for   *)
(*              every file and every sequence of findings;                 *)
(*   Spec       run_review as a state machine over the host, the model     *)
(*              provider and the user;                                     *)
(*   SpecRetry  one review call of the provider gateway, with its retries; *)
(*   SpecCmd    the review command: its checks, run_review and the store;  *)
(*   SpecContext  build_context_section over RepoContexts of all sizes.    *)
(***************************************************************************)
EXTENDS Integers, Sequences, FiniteSets, TLC

VARIABLES
    patch_text,     \* SpecPatch: the patch text handed to the scanners
    scan,           \* SpecPatch: the locals of get_diff_positions' loop
    lookup,         \* SpecPatch: the last get_patch_line_content call
    pr,             \* the host's pull request: draft flag, reviews, review comments
    args,           \* run_review's arguments and the configuration it reads
    pc,             \* where run_review is
    loc,            \* run_review's locals
    audit_log,      \* the comments written by flush_to_file, in order
    log,            \* the distinct debug messages process_file logged
    frame,          \* SpecFile: the locals of the process_file call under way
    calls,          \* the calls made to the host, the provider and the user, in order
    result,         \* what run_review returned or raised
    gateway,        \* SpecRetry: the review call of the provider gateway
    cmd,            \* SpecCmd: the review command, its configuration and store
    context         \* SpecContext: the RepoContext and its rendering

patchVars == <<patch_text, scan, lookup>>

runVars == <<pr, args, pc, loc, audit_log, log, frame, calls, result>>

sideVars == <<gateway, cmd, context>>

vars == <<patch_text, scan, lookup, pr, args, pc, loc, audit_log, log, frame, calls, result,
          gateway, cmd, context>>

(***************************************************************************)
(* Bounds of the model.                                                    *)
(***************************************************************************)
MaxLines == 4

\* SpecFile: the most findings the provider returns to one call.
MaxFindings == 2

\* The largest configured batch_limit.
MaxBatchLimit == 2

\* SpecFile: the most calls of process_file that share one queued set.
MaxCalls == 2

\* SpecContext: the most co-changed files, and sibling files, of a RepoContext.
MaxContextFiles == 2

(***************************************************************************)
(* Python values.                                                          *)
(***************************************************************************)
\* Optional[int]: None, or an int.
None == [none |-> TRUE, v |-> 0]

Some(n) == [none |-> FALSE, v |-> n]

NL == "\n"

\* str.startswith(prefix)
StartsWith(s, prefix) ==
    /\ Len(s) >= Len(prefix)
    /\ SubSeq(s, 1, Len(prefix)) = prefix

\* The index of the first occurrence of the character sep in s, 0 if none.
FirstIndex(s, sep) ==
    IF \E i \in 1..Len(s) : s[i] = sep
    THEN CHOOSE i \in 1..Len(s) : s[i] = sep /\ \A j \in 1..(i - 1) : s[j] # sep
    ELSE 0

\* str.split(sep) for a one-character separator: always at least one part.
RECURSIVE Split(_, _)
Split(s, sep) ==
    LET i == FirstIndex(s, sep)
    IN  IF i = 0
        THEN <<s>>
        ELSE <<SubSeq(s, 1, i - 1)>> \o Split(SubSeq(s, i + 1, Len(s)), sep)

\* str.splitlines() over texts whose only line boundary is "\n": no part for
\* the empty text, and no empty last part after a final "\n".
RECURSIVE splitlines(_)
splitlines(s) ==
    LET i == FirstIndex(s, NL)
    IN  IF s = <<>>
        THEN <<>>
        ELSE IF i = 0
        THEN <<s>>
        ELSE <<SubSeq(s, 1, i - 1)>> \o splitlines(SubSeq(s, i + 1, Len(s)))

Digits == <<"0", "1", "2", "3", "4", "5", "6", "7", "8", "9">>

IsDigit(c) == \E d \in 1..10 : Digits[d] = c

DigitVal(c) == (CHOOSE d \in 1..10 : Digits[d] = c) - 1

RECURSIVE DecimalValue(_)
DecimalValue(s) ==
    IF s = <<>>
    THEN 0
    ELSE 10 * DecimalValue(SubSeq(s, 1, Len(s) - 1)) + DigitVal(s[Len(s)])

\* int(s): an optional sign and at least one digit, else ValueError.
\* [ok |-> FALSE] stands for the exception.
py_int(s) ==
    LET signed == s # <<>> /\ s[1] \in {"-", "+"}
        body == IF signed THEN Tail(s) ELSE s
    IN  IF body = <<>> \/ \E i \in 1..Len(body) : ~IsDigit(body[i])
        THEN [ok |-> FALSE, v |-> 0]
        ELSE [ok |-> TRUE,
              v |-> IF signed /\ s[1] = "-"
                    THEN 0 - DecimalValue(body)
                    ELSE DecimalValue(body)]

(***************************************************************************)
(* reviewer.py: the hunk header parse, shared by both scanners.            *)
(***************************************************************************)
\* The body of the try block: line.split("+")[1].split(" ")[0], then
\* int(new_file_range.split(",")[0]).  [ok |-> FALSE] is an exception raised
\* inside it (IndexError when the header has no "+", ValueError from int).
ParseNewFileStart(line) ==
    LET parts == Split(line, "+")
    IN  IF Len(parts) < 2
        THEN [ok |-> FALSE, v |-> 0]
        ELSE py_int(Split(Split(parts[2], " ")[1], ",")[1])

\* HeaderFileLine without the except clause: the exception propagates.
HeaderFileLine_NoExcept(line) ==
    LET r == ParseNewFileStart(line)
    IN  [raised |-> ~r.ok, file_line |-> IF r.ok THEN Some(r.v) ELSE None]

\* try: ... except Exception: file_line = None
HeaderFileLine(line) ==
    LET r == ParseNewFileStart(line)
    IN  [raised |-> FALSE, file_line |-> IF r.ok THEN Some(r.v) ELSE None]

IsHeader(line) == StartsWith(line, <<"@", "@">>)

IsAddedLine(line) ==
    StartsWith(line, <<"+">>) /\ ~StartsWith(line, <<"+", "+", "+">>)

IsRemovedLine(line) ==
    StartsWith(line, <<"-">>) /\ ~StartsWith(line, <<"-", "-", "-">>)

(***************************************************************************)
(* reviewer.py: get_diff_positions.                                        *)
(***************************************************************************)
\* The map with key k set to v (a dict assignment).
DictSet(d, k, v) ==
    [x \in (DOMAIN d) \cup {k} |-> IF x = k THEN v ELSE d[x]]

EmptyDict == [x \in {} |-> 0]

ScanInit ==
    [idx |-> 0, positions |-> EmptyDict, diff_position |-> 0,
     file_line |-> None, raised |-> FALSE]

\* One iteration of the loop over patch_text.splitlines().
ScanStep(st, line) ==
    IF st.raised
    THEN st
    ELSE IF IsHeader(line)
    THEN LET h == HeaderFileLine(line)
         IN  [st EXCEPT !.idx = @ + 1,
                        !.file_line = h.file_line,
                        !.raised = h.raised]
    ELSE LET pos == st.diff_position + 1
         IN  IF IsAddedLine(line)
             THEN IF ~st.file_line.none
                  THEN [st EXCEPT !.idx = @ + 1,
                                  !.diff_position = pos,
                                  !.positions = DictSet(@, st.file_line.v, pos),
                                  !.file_line = Some(st.file_line.v + 1)]
                  ELSE [st EXCEPT !.idx = @ + 1, !.diff_position = pos]
             ELSE IF IsRemovedLine(line)
             THEN [st EXCEPT !.idx = @ + 1, !.diff_position = pos]
             ELSE IF ~st.file_line.none
                  THEN [st EXCEPT !.idx = @ + 1,
                                  !.diff_position = pos,
                                  !.file_line = Some(st.file_line.v + 1)]
                  ELSE [st EXCEPT !.idx = @ + 1, !.diff_position = pos]

RECURSIVE ScanFrom(_, _)
ScanFrom(st, lines) ==
    IF lines = <<>> THEN st ELSE ScanFrom(ScanStep(st, Head(lines)), Tail(lines))

\* The locals of get_diff_positions when its loop ends.
ScanAll(text) == ScanFrom(ScanInit, splitlines(text))

get_diff_positions(text) == ScanAll(text).positions

(***************************************************************************)
(* reviewer.py: get_patch_line_content.                                    *)
(***************************************************************************)
\* The looked-up line returned as it stands in the patch.
StripMarker_KeepsMarker(line) == line

\* line[1:] if line and line[0] in ("+", " ") else line
StripMarker(line) ==
    IF line # <<>> /\ line[1] \in {"+", " "} THEN Tail(line) ELSE line

\* The loop from its i-th line on.  The result records, beside the returned
\* text, the index of the line it was taken from (0: the final return "").
RECURSIVE LookupFrom(_, _, _, _)
LookupFrom(lines, i, file_line, target_line) ==
    IF i > Len(lines)
    THEN [raised |-> FALSE, text |-> <<>>, at |-> 0]
    ELSE LET line == lines[i]
         IN  IF IsHeader(line)
             THEN LET h == HeaderFileLine(line)
                  IN  IF h.raised
                      THEN [raised |-> TRUE, text |-> <<>>, at |-> 0]
                      ELSE LookupFrom(lines, i + 1, h.file_line, target_line)
             ELSE IF IsRemovedLine(line)
             THEN LookupFrom(lines, i + 1, file_line, target_line)
             ELSE IF ~file_line.none
             THEN IF file_line.v = target_line
                  THEN [raised |-> FALSE, text |-> StripMarker(line), at |-> i]
                  ELSE LookupFrom(lines, i + 1, Some(file_line.v + 1), target_line)
             ELSE LookupFrom(lines, i + 1, file_line, target_line)

LookupLine(text, target_line) ==
    LookupFrom(splitlines(text), 1, None, target_line)

get_patch_line_content(text, target_line) == LookupLine(text, target_line).text

(***************************************************************************)
(* More of Python's str.                                                   *)
(***************************************************************************)
IsSpace(c) == c \in {" ", "\n", "\t"}

\* str.strip()
RECURSIVE strip(_)
strip(s) ==
    IF s = <<>>
    THEN s
    ELSE IF IsSpace(s[1])
    THEN strip(Tail(s))
    ELSE IF IsSpace(s[Len(s)])
    THEN strip(SubSeq(s, 1, Len(s) - 1))
    ELSE s

\* needle in hay
Contains(hay, needle) ==
    \E i \in 0..(Len(hay) - Len(needle)) :
        SubSeq(hay, i + 1, i + Len(needle)) = needle

\* str.endswith(suffix)
EndsWith(s, suffix) ==
    /\ Len(s) >= Len(suffix)
    /\ SubSeq(s, Len(s) - Len(suffix) + 1, Len(s)) = suffix

\* The characters of the model's file names, in code point order.
CharOrder ==
    <<"*", ".", "/", "0", "1", "2", "3", "4", "5", "6", "7", "8", "9", "?",
      "A", "B", "C", "D", "E", "F", "G", "H", "I", "J", "K", "L", "M",
      "N", "O", "P", "Q", "R", "S", "T", "U", "V", "W", "X", "Y", "Z", "_",
      "a", "b", "c", "d", "e", "f", "g", "h", "i", "j", "k", "l", "m",
      "n", "o", "p", "q", "r", "s", "t", "u", "v", "w", "x", "y", "z">>

OrdOf == [c \in {CharOrder[k] : k \in 1..Len(CharOrder)} |->
            CHOOSE k \in 1..Len(CharOrder) : CharOrder[k] = c]

Ord(c) == OrdOf[c]

LowerOf == [c \in {CharOrder[k] : k \in OrdOf["A"]..OrdOf["Z"]} |->
              CharOrder[OrdOf[c] - OrdOf["A"] + OrdOf["a"]]]

\* str.lower(), one character
LowerChar(c) == IF c \in DOMAIN LowerOf THEN LowerOf[c] ELSE c

lower(s) == [k \in 1..Len(s) |-> LowerChar(s[k])]

\* s < t, as Python orders strings
RECURSIVE StrLess(_, _)
StrLess(s, t) ==
    IF t = <<>>
    THEN FALSE
    ELSE IF s = <<>>
    THEN TRUE
    ELSE IF s[1] # t[1]
    THEN Ord(s[1]) < Ord(t[1])
    ELSE StrLess(Tail(s), Tail(t))

\* fnmatch.fnmatch(name, pat) for patterns of literals, "*" and "?"
RECURSIVE fnmatch(_, _)
fnmatch(name, pat) ==
    IF pat = <<>>
    THEN name = <<>>
    ELSE IF pat[1] = "*"
    THEN fnmatch(name, Tail(pat)) \/ (name # <<>> /\ fnmatch(Tail(name), pat))
    ELSE /\ name # <<>>
         /\ (pat[1] = "?" \/ pat[1] = name[1])
         /\ fnmatch(Tail(name), Tail(pat))

\* filename.rsplit("/", 1)[-1]
RECURSIVE Basename(_)
Basename(s) ==
    LET i == FirstIndex(s, "/")
    IN  IF i = 0 THEN s ELSE Basename(SubSeq(s, i + 1, Len(s)))

\* pattern.rstrip("/")
RECURSIVE RStripSlash(_)
RStripSlash(s) ==
    IF s # <<>> /\ s[Len(s)] = "/"
    THEN RStripSlash(SubSeq(s, 1, Len(s) - 1))
    ELSE s

\* Optional[str]
NoneStr == [none |-> TRUE, v |-> <<>>]

SomeStr(s) == [none |-> FALSE, v |-> s]

(***************************************************************************)
(* utils/code.py                                                           *)
(***************************************************************************)
NON_CODE_EXTENSIONS ==
    { <<".", "p", "n", "g">>,
      <<".", "j", "p", "g">>,
      <<".", "j", "p", "e", "g">>,
      <<".", "g", "i", "f">>,
      <<".", "s", "v", "g">>,
      <<".", "i", "c", "o">>,
      <<".", "w", "e", "b", "p">>,
      <<".", "b", "m", "p">>,
      <<".", "p", "d", "f">>,
      <<".", "w", "o", "f", "f">>,
      <<".", "w", "o", "f", "f", "2">>,
      <<".", "t", "t", "f">>,
      <<".", "e", "o", "t">>,
      <<".", "o", "t", "f">>,
      <<".", "m", "p", "4">>,
      <<".", "m", "p", "3">>,
      <<".", "w", "a", "v">>,
      <<".", "o", "g", "g">>,
      <<".", "z", "i", "p">>,
      <<".", "t", "a", "r">>,
      <<".", "g", "z">>,
      <<".", "r", "a", "r">>,
      <<".", "7", "z">>,
      <<".", "l", "o", "c", "k">> }

is_code_file(file_name) ==
    LET name == lower(file_name)
    IN  ~\E ext \in NON_CODE_EXTENSIONS : EndsWith(name, ext)

(***************************************************************************)
(* reviewer.py: _is_excluded, _determine_event, _build_summary             *)
(***************************************************************************)
PatternExcludes(filename, pattern) ==
    LET prefix == RStripSlash(pattern) \o <<"/">>
    IN  \/ fnmatch(filename, pattern)
        \/ fnmatch(Basename(filename), pattern)
        \/ StartsWith(filename, prefix)
        \/ Contains(filename, <<"/">> \o prefix)

_is_excluded(filename, patterns) ==
    \E k \in 1..Len(patterns) : PatternExcludes(filename, patterns[k])

\* _determine_event with "major" left out of the blocking severities.
_determine_event_CriticalOnly(comments) ==
    IF comments = <<>>
    THEN "APPROVE"
    ELSE IF \E k \in 1..Len(comments) : comments[k].severity = "critical"
    THEN "REQUEST_CHANGES"
    ELSE "COMMENT"

\* A Comment always carries a severity (process_file sets it), so the
\* default of c.get("severity", "minor") is never taken here.
_determine_event(comments) ==
    IF comments = <<>>
    THEN "APPROVE"
    ELSE IF \E k \in 1..Len(comments) : comments[k].severity \in {"critical", "major"}
    THEN "REQUEST_CHANGES"
    ELSE "COMMENT"

\* sha[:7]
Take7(sha) == SubSeq(sha, 1, IF Len(sha) < 7 THEN Len(sha) ELSE 7)

\* The summary body, as the facts it prints: the incremental line (base and
\* head prefixes), the numbers of the stats line, and the "Could not fetch"
\* list.  The elapsed time is left out.
_build_summary(file_summary, all_comments, incremental_info) ==
    LET IsReviewed(f) == ~f.skipped /\ f.error.none
        IsSkipped(f) == f.skipped
        IsError(f) == ~f.error.none
        errors == SelectSeq(file_summary, IsError)
    IN  [k |-> "summary",
         incremental |->
            IF incremental_info.none
            THEN [shown |-> FALSE, base |-> <<>>, head |-> <<>>]
            ELSE [shown |-> TRUE,
                  base |-> Take7(incremental_info.base_sha),
                  head |-> Take7(incremental_info.head_sha)],
         reviewed |-> Len(SelectSeq(file_summary, IsReviewed)),
         skipped |-> Len(SelectSeq(file_summary, IsSkipped)),
         errors |-> [e \in 1..Len(errors) |-> errors[e].filename],
         total_comments |-> Len(all_comments)]

(***************************************************************************)
(* gh/pull_request.py: get_last_reviewed_sha                               *)
(***************************************************************************)
ShaLen == 40

IsHex(c) == IsDigit(c) \/ c \in {"a", "b", "c", "d", "e", "f"}

\* A body is a sequence of parts; the part [k |-> "marker", sha |-> s] is
\* the text "<!-- prlens-sha: s -->".  _SHA_MARKER_RE matches it when s is
\* 40 hex digits.
MarkerMatches(part) ==
    /\ part.k = "marker"
    /\ Len(part.sha) = ShaLen
    /\ \A i \in 1..Len(part.sha) : IsHex(part.sha[i])

\* _SHA_MARKER_RE.search(review.body or ""): the first match, if any.
MarkerSearch(review) ==
    LET body == IF review.body_is_none THEN <<>> ELSE review.body
        hits == {i \in 1..Len(body) : MarkerMatches(body[i])}
    IN  IF hits = {}
        THEN NoneStr
        ELSE SomeStr(body[CHOOSE i \in hits : \A j \in hits : i <= j].sha)

RECURSIVE LastShaFrom(_, _)
LastShaFrom(reviews, last_sha) ==
    IF reviews = <<>>
    THEN last_sha
    ELSE LET match == MarkerSearch(Head(reviews))
         IN  LastShaFrom(Tail(reviews), IF ~match.none THEN match ELSE last_sha)

\* get_last_reviewed_sha looking at the last review only.
get_last_reviewed_sha_LastReviewOnly(reviews) ==
    IF reviews = <<>> THEN NoneStr ELSE MarkerSearch(reviews[Len(reviews)])

get_last_reviewed_sha(reviews) == LastShaFrom(reviews, NoneStr)

(***************************************************************************)
(* reviewer.py: already_commented, process_file                            *)
(***************************************************************************)
_SEVERITY_RANK == {"critical", "major", "minor", "nitpick"}

\* c.line if c.line is not None else getattr(c, "original_line", None)
CommentLine(c) == IF ~c.line.none THEN c.line ELSE c.original_line

\* already_commented looking up the text as given, not stripped.
already_commented_NoStrip(existing_comments, file_path, file_line, comment_text, queued) ==
    LET text == comment_text
    IN  \/ <<file_path, file_line, text>> \in queued
        \/ \E k \in 1..Len(existing_comments) :
             LET c == existing_comments[k]
             IN  /\ c.path = file_path
                 /\ CommentLine(c) = Some(file_line)
                 /\ Contains(strip(c.body), text)

already_commented(existing_comments, file_path, file_line, comment_text, queued) ==
    LET text == strip(comment_text)
    IN  \/ <<file_path, file_line, text>> \in queued
        \/ \E k \in 1..Len(existing_comments) :
             LET c == existing_comments[k]
             IN  /\ c.path = file_path
                 /\ CommentLine(c) = Some(file_line)
                 /\ Contains(strip(c.body), text)

\* severity.upper()
Upper(severity) ==
    CASE severity = "critical" -> <<"C", "R", "I", "T", "I", "C", "A", "L">>
      [] severity = "major" -> <<"M", "A", "J", "O", "R">>
      [] severity = "minor" -> <<"M", "I", "N", "O", "R">>
      [] severity = "nitpick" -> <<"N", "I", "T", "P", "I", "C", "K">>

\* f"**[{severity.upper()}]**\n\n{text}"
CommentBody(severity, text) ==
    <<"*", "*", "[">> \o Upper(severity) \o <<"]", "*", "*", NL, NL>> \o text

\* A finding is [line, comment, severity]: line is None when the key is
\* missing, comment is "" when missing, severity is None when missing.
FindingSeverity(finding) ==
    LET severity == IF finding.severity.none THEN "minor" ELSE finding.severity.v
    IN  IF severity \notin _SEVERITY_RANK THEN "minor" ELSE severity

\* process_file's loop without the test "line not in diff_positions".
ProcessFinding_NoDiffCheck(acc, filename, patch, diff_positions, existing_comments, finding) ==
    LET line == finding.line
        text == finding.comment
        severity == FindingSeverity(finding)
    IN  IF line.none \/ line.v = 0 \/ text = <<>>
        THEN acc
        ELSE IF already_commented(existing_comments, filename, line.v, text, acc.queued)
        THEN [acc EXCEPT !.log = @ \cup {<<"duplicate", line.v>>}]
        ELSE [acc EXCEPT
                !.results = Append(@,
                    [path |-> filename,
                     position |-> IF line.v \in DOMAIN diff_positions
                                  THEN diff_positions[line.v]
                                  ELSE line.v,
                     body |-> CommentBody(severity, text),
                     line |-> line.v,
                     severity |-> severity,
                     code |-> get_patch_line_content(patch, line.v)]),
                !.queued = @ \cup {<<filename, line.v, strip(text)>>}]

\* One iteration of process_file's loop over the findings; acc is
\* [results, queued, log], log being the debug messages logged.
ProcessFinding(acc, filename, patch, diff_positions, existing_comments, finding) ==
    LET line == finding.line
        text == finding.comment
        severity == FindingSeverity(finding)
    IN  IF line.none \/ line.v = 0 \/ text = <<>>
        THEN acc
        ELSE IF line.v \notin DOMAIN diff_positions
        THEN [acc EXCEPT !.log = @ \cup {<<"not in diff positions", line.v>>}]
        ELSE IF already_commented(existing_comments, filename, line.v, text, acc.queued)
        THEN [acc EXCEPT !.log = @ \cup {<<"duplicate", line.v>>}]
        ELSE [acc EXCEPT
                !.results = Append(@,
                    [path |-> filename,
                     position |-> diff_positions[line.v],
                     body |-> CommentBody(severity, text),
                     line |-> line.v,
                     severity |-> severity,
                     code |-> get_patch_line_content(patch, line.v)]),
                !.queued = @ \cup {<<filename, line.v, strip(text)>>}]

RECURSIVE ProcessFindings(_, _, _, _, _, _)
ProcessFindings(acc, filename, patch, diff_positions, existing_comments, findings) ==
    IF findings = <<>>
    THEN acc
    ELSE ProcessFindings(
            ProcessFinding(acc, filename, patch, diff_positions,
                           existing_comments, Head(findings)),
            filename, patch, diff_positions, existing_comments, Tail(findings))

\* process_file: the Comments it returns, the queued set as it leaves it,
\* what it logged, and whether reviewer.review was called.  findings is what
\* that call returns.  (file.filename is never None for a file of a diff.)
process_file(file, patch, findings, existing_comments, queued) ==
    IF patch = <<>> \/ file.status \notin {"modified", "added"}
    THEN [results |-> <<>>, queued |-> queued, log |-> {}, called |-> FALSE]
    ELSE LET r == ProcessFindings([results |-> <<>>, queued |-> queued, log |-> {}],
                                  file.filename, patch, get_diff_positions(patch),
                                  existing_comments, findings)
         IN  [results |-> r.results, queued |-> r.queued, log |-> r.log,
              called |-> TRUE]

(***************************************************************************)
(* The gateway, the command and the context before they are used.          *)
(***************************************************************************)
NoGateway ==
    [pc |-> "idle", script |-> <<>>, attempt |-> 0, events |-> <<>>,
     findings |-> <<>>]

NoCmd ==
    [store |-> "noop", token |-> TRUE, api_key |-> TRUE, save_calls |-> 0,
     history |-> <<>>, warned |-> FALSE, exit |-> "running"]

NoRendering ==
    [pc |-> "idle",
     repo_context |-> [none |-> TRUE, repo_map |-> 0, cochanged_files |-> <<>>,
                       sibling_files |-> <<>>,
                       test_file_path |-> [none |-> TRUE, v |-> ""],
                       test_file_content |-> [none |-> TRUE, n |-> 0]],
     k |-> 0, returned |-> <<>>]

(***************************************************************************)
(* reviewer.py: run_review's locals and results before the call.           *)
(***************************************************************************)
NoInfo == [none |-> TRUE, base_sha |-> <<>>, head_sha |-> <<>>]

NoLocals ==
    [head_sha |-> <<>>, last_sha |-> NoneStr, incremental_info |-> NoInfo,
     diff_files |-> <<>>, batch_limit |-> 0, existing_comments |-> <<>>,
     queued |-> {}, repo_tree |-> FALSE, all_comments |-> <<>>,
     file_summary |-> <<>>, i |-> 0, event |-> "", summary_body |-> <<>>,
     repo_context |-> [none |-> TRUE, repo_map |-> FALSE, related |-> 0],
     answer |-> NoneStr, idx |-> 0, total_posted |-> 0]

Running == [kind |-> "running"]

\* No call of process_file is under way.
NoFrame == [active |-> FALSE, file |-> <<>>, patch |-> <<>>,
            diff_positions |-> <<>>, results |-> <<>>, n |-> 0]

(***************************************************************************)
(* SpecPatch: the scanners applied to every patch of at most MaxLines      *)
(* lines drawn from the sample lines.                                      *)
(***************************************************************************)
HdrAt1 == <<"@", "@", " ", "-", "1", " ", "+", "1", " ", "@", "@">>

HdrAt3 == <<"@", "@", " ", "-", "1", ",", "2", " ", "+", "3", ",", "2", " ", "@", "@">>

HdrNoPlus == <<"@", "@", " ", "b", "a", "d", " ", "@", "@">>

HdrNoInt == <<"@", "@", " ", "-", "1", " ", "+", "x", " ", "@", "@">>

SampleLines ==
    { HdrAt1, HdrAt3, HdrNoPlus, HdrNoInt,
      <<"+", "a">>,                 \* an added line
      <<"+", "+", "+", "i">>,       \* the added line "++i"
      <<"-", "b">>,                 \* a removed line
      <<"-", "-", "-", " ", "c">>,  \* the removed line "-- c"
      <<" ", "c">> }                \* a context line

\* "\n".join(lines)
RECURSIVE JoinLines(_)
JoinLines(lines) ==
    IF lines = <<>>
    THEN <<>>
    ELSE IF Len(lines) = 1
    THEN lines[1]
    ELSE lines[1] \o <<NL>> \o JoinLines(Tail(lines))

SamplePatches ==
    { JoinLines(ls) : ls \in UNION { [1..n -> SampleLines] : n \in 0..MaxLines } }

MaxTarget == 5

NoLookup == [target |-> 0, raised |-> FALSE, text |-> <<>>, at |-> 0]

InitPatch ==
    /\ patch_text \in SamplePatches
    /\ scan = ScanInit
    /\ lookup = NoLookup
    /\ pr = [draft |-> FALSE, reviews |-> <<>>, review_comments |-> <<>>]
    /\ args = [review_draft_prs |-> FALSE, force_full |-> FALSE, shadow |-> FALSE,
               auto_confirm |-> FALSE, batch_limit |-> 1, model |-> "anthropic"]
    /\ pc = "idle"
    /\ loc = NoLocals
    /\ audit_log = <<>>
    /\ log = {}
    /\ frame = NoFrame
    /\ calls = <<>>
    /\ result = Running
    /\ gateway = NoGateway
    /\ cmd = NoCmd
    /\ context = NoRendering

\* One iteration of get_diff_positions' loop.
ScanLine ==
    /\ scan.idx < Len(splitlines(patch_text))
    /\ ~scan.raised
    /\ scan' = ScanStep(scan, splitlines(patch_text)[scan.idx + 1])
    /\ UNCHANGED <<patch_text, lookup>>
    /\ UNCHANGED <<runVars, sideVars>>

\* A call get_patch_line_content(patch_text, t), once the positions are known.
LookupCall ==
    /\ scan.idx = Len(splitlines(patch_text))
    /\ lookup.target = 0
    /\ \E t \in 1..MaxTarget :
         lookup' = [target |-> t] @@ LookupLine(patch_text, t)
    /\ UNCHANGED <<patch_text, scan>>
    /\ UNCHANGED <<runVars, sideVars>>

NextPatch == ScanLine \/ LookupCall

SpecPatch == InitPatch /\ [][NextPatch]_vars

(***************************************************************************)
(* The pull request, the diffs and the provider's findings of Spec.        *)
(***************************************************************************)
HeadSha == [i \in 1..ShaLen |-> "a"]

OldSha == [i \in 1..ShaLen |-> "b"]

MarkerPart(sha) == [k |-> "marker", sha |-> sha]

\* A review posted by an earlier run at commit sha.
PastReview(sha) ==
    [body_is_none |-> FALSE, body |-> <<[k |-> "text"], MarkerPart(sha)>>,
     event |-> "COMMENT", comments |-> <<>>]

\* What pr.get_reviews() holds when the run starts.
ReviewHistories == { <<>>, <<PastReview(OldSha)>>, <<PastReview(OldSha), PastReview(HeadSha)>> }

FileA ==
    [filename |-> <<"a", ".", "p", "y">>, status |-> "added",
     patch |-> JoinLines(<<HdrAt1, <<" ", "c">>, <<"+", "a">>>>)]

FileB ==
    [filename |-> <<"b", ".", "p", "y">>, status |-> "modified",
     patch |-> JoinLines(<<HdrAt1, <<"+", "a">>, <<"-", "b">>>>)]

FilePng == [filename |-> <<"c", ".", "P", "N", "G">>, status |-> "added", patch |-> <<>>]

FileDocs ==
    [filename |-> <<"d", "o", "c", "s", "/", "d", ".", "p", "y">>, status |-> "modified",
     patch |-> JoinLines(<<HdrAt1, <<"+", "a">>>>)]

FileRemoved ==
    [filename |-> <<"r", ".", "p", "y">>, status |-> "removed",
     patch |-> JoinLines(<<HdrAt1, <<"-", "b">>>>)]

\* pr.get_files(), in the host's order.
FullDiff == <<FileB, FilePng, FileA>>

\* repo.compare(OldSha, HeadSha).files, in the host's order.
IncrementalDiff == <<FileRemoved, FileDocs, FileB>>

\* config["exclude"]
ExcludePatterns == <<<<"d", "o", "c", "s", "/">>>>

\* config["max_chars_per_file"]
max_chars == 20000

TruncatedMarker == <<"\n", ".", ".", ".", " ", "[", "d", "i", "f", "f", " ", "t", "r", "u", "n", "c", "a", "t", "e", "d", "]">>

\* patch[:max_chars] + "\n... [diff truncated]" when the patch is longer
Truncate(patch) ==
    IF Len(patch) > max_chars
    THEN SubSeq(patch, 1, max_chars) \o TruncatedMarker
    ELSE patch

Finding(line, comment, severity) ==
    [line |-> line, comment |-> comment, severity |-> severity]

\* The findings the provider may return for a file.
Findings ==
    { Finding(Some(2), <<"x">>, SomeStr("critical")),
      Finding(Some(2), <<" ", "x">>, NoneStr),
      Finding(Some(2), <<"y">>, SomeStr("major")),
      Finding(Some(1), <<"x">>, SomeStr("blocker")),
      Finding(Some(1), <<"y", " ">>, SomeStr("nitpick")),
      Finding(Some(3), <<"x">>, SomeStr("critical")),
      Finding(None, <<"x">>, SomeStr("critical")),
      Finding(Some(2), <<>>, SomeStr("critical")) }

\* Spec: the lists the provider returns for a file.
ProviderAnswers ==
    { <<>>,
      <<Finding(Some(2), <<"x">>, SomeStr("critical")),
        Finding(Some(3), <<"x">>, SomeStr("critical"))>>,
      <<Finding(Some(2), <<"y">>, SomeStr("major")),
        Finding(Some(2), <<"y">>, SomeStr("major"))>>,
      <<Finding(Some(2), <<" ", "x">>, NoneStr),
        Finding(Some(2), <<"z">>, SomeStr("nitpick"))>>,
      <<Finding(Some(1), <<"x">>, SomeStr("blocker")),
        Finding(Some(1), <<"y", " ">>, SomeStr("nitpick"))>> }

HostComment(path, line, original_line, body) ==
    [path |-> path, line |-> line, original_line |-> original_line, body |-> body]

\* What pr.get_review_comments() holds when the run starts.
ExistingComments ==
    { <<>>,
      <<HostComment(<<"a", ".", "p", "y">>, Some(2), Some(2), <<"a", "y", "b">>),
        HostComment(<<"b", ".", "p", "y">>, None, Some(1), <<"x", NL>>),
        HostComment(<<"b", ".", "p", "y">>, Some(7), Some(1), <<"y">>)>> }

(***************************************************************************)
(* reviewer.py: run_review                                                 *)
(***************************************************************************)
ReturnedNone == [kind |-> "None"]

Raised(exc) == [kind |-> "raised", exc |-> exc]

\* sorted(files, key=lambda f: f.filename): a stable insertion sort.
RECURSIVE InsertFile(_, _)
InsertFile(sorted, f) ==
    IF sorted = <<>>
    THEN <<f>>
    ELSE IF StrLess(f.filename, Head(sorted).filename)
    THEN <<f>> \o sorted
    ELSE <<Head(sorted)>> \o InsertFile(Tail(sorted), f)

RECURSIVE SortedByFilename(_)
SortedByFilename(files) ==
    IF files = <<>>
    THEN <<>>
    ELSE InsertFile(SortedByFilename(SubSeq(files, 1, Len(files) - 1)),
                    files[Len(files)])

Init ==
    /\ patch_text = <<>>
    /\ scan = ScanInit
    /\ lookup = NoLookup
    /\ pr \in [draft : BOOLEAN, reviews : ReviewHistories,
               review_comments : ExistingComments]
    /\ args \in [review_draft_prs : BOOLEAN, force_full : BOOLEAN,
                 shadow : BOOLEAN, auto_confirm : BOOLEAN,
                 batch_limit : 1..MaxBatchLimit,
                 model : {"anthropic", "gemini"}]
    \* shadow mode returns before auto_confirm and batch_limit are read
    /\ args.shadow => ~args.auto_confirm /\ args.batch_limit = 1
    /\ pc = "start"
    /\ loc = NoLocals
    /\ audit_log = <<>>
    /\ log = {}
    /\ frame = NoFrame
    /\ calls = <<>>
    /\ result = Running
    /\ gateway = NoGateway
    /\ cmd = NoCmd
    /\ context = NoRendering

Return(value) ==
    /\ pc' = "done"
    /\ result' = value

\* Lines 375-380: get_pull raises, run_review raises ValueError.
PullNotFound ==
    /\ pc = "start"
    /\ calls' = calls \o <<"get_pull">>
    /\ Return(Raised("ValueError"))
    /\ UNCHANGED <<pr, args, loc, audit_log, log>>
    /\ UNCHANGED <<patchVars, frame, sideVars>>

\* run_review without the draft test of line 382.
Start_ReviewsDrafts ==
    /\ pc = "start"
    /\ calls' = calls \o <<"get_pull">>
    /\ pc' = "scope"
    /\ loc' = [loc EXCEPT !.head_sha = HeadSha]
    /\ UNCHANGED <<pr, args, audit_log, log, result>>
    /\ UNCHANGED <<patchVars, frame, sideVars>>

\* Lines 375-387: the pull request is fetched; a draft is skipped unless
\* review_draft_prs is set.
Start ==
    /\ pc = "start"
    /\ calls' = calls \o <<"get_pull">>
    /\ IF pr.draft /\ ~args.review_draft_prs
       THEN /\ Return(ReturnedNone)
            /\ UNCHANGED loc
       ELSE /\ pc' = "scope"
            /\ loc' = [loc EXCEPT !.head_sha = HeadSha]
            /\ UNCHANGED result
    /\ UNCHANGED <<pr, args, audit_log, log>>
    /\ UNCHANGED <<patchVars, frame, sideVars>>

\* The full diff, with the last reviewed commit looked up under force_full too.
ScopeFull_LooksUp ==
    /\ pc = "scope"
    /\ LET last_sha == get_last_reviewed_sha(pr.reviews)
       IN  /\ args.force_full \/ last_sha.none \/ last_sha.v = <<>>
           /\ calls' = calls \o <<"get_reviews", "get_files">>
           /\ loc' = [loc EXCEPT !.last_sha = last_sha,
                                 !.diff_files = SortedByFilename(FullDiff)]
    /\ pc' = "setup"
    /\ UNCHANGED <<pr, args, audit_log, log, result>>
    /\ UNCHANGED <<patchVars, frame, sideVars>>

\* Lines 389-410 with force_full, or with no last reviewed commit: the full
\* diff.
ScopeFull ==
    /\ pc = "scope"
    /\ LET last_sha == get_last_reviewed_sha(pr.reviews)
       IN  IF args.force_full
           THEN /\ calls' = calls \o <<"get_files">>
                /\ loc' = [loc EXCEPT !.diff_files = SortedByFilename(FullDiff)]
           ELSE /\ last_sha.none \/ last_sha.v = <<>>
                /\ calls' = calls \o <<"get_reviews", "get_files">>
                /\ loc' = [loc EXCEPT !.last_sha = last_sha,
                                      !.diff_files = SortedByFilename(FullDiff)]
    /\ pc' = "setup"
    /\ UNCHANGED <<pr, args, audit_log, log, result>>
    /\ UNCHANGED <<patchVars, frame, sideVars>>

\* Lines 389-394: the last reviewed commit is the head commit.
ScopeNothingNew ==
    /\ pc = "scope"
    /\ ~args.force_full
    /\ LET last_sha == get_last_reviewed_sha(pr.reviews)
       IN  /\ ~last_sha.none /\ last_sha.v # <<>>
           /\ last_sha.v = loc.head_sha
           /\ loc' = [loc EXCEPT !.last_sha = last_sha]
    /\ calls' = calls \o <<"get_reviews">>
    /\ Return(ReturnedNone)
    /\ UNCHANGED <<pr, args, audit_log, log>>
    /\ UNCHANGED <<patchVars, frame, sideVars>>

\* Lines 395-401: the comparison of the last reviewed commit with head.
ScopeIncremental ==
    /\ pc = "scope"
    /\ ~args.force_full
    /\ LET last_sha == get_last_reviewed_sha(pr.reviews)
       IN  /\ ~last_sha.none /\ last_sha.v # <<>>
           /\ last_sha.v # loc.head_sha
           /\ loc' = [loc EXCEPT
                        !.last_sha = last_sha,
                        !.diff_files = SortedByFilename(IncrementalDiff),
                        !.incremental_info =
                            [none |-> FALSE, base_sha |-> last_sha.v,
                             head_sha |-> loc.head_sha]]
    /\ calls' = calls \o <<"get_reviews", "compare">>
    /\ pc' = "setup"
    /\ UNCHANGED <<pr, args, audit_log, log, result>>
    /\ UNCHANGED <<patchVars, frame, sideVars>>

\* The fallback with incremental_info assigned before the comparison.
ScopeFallback_RecordsInfo ==
    /\ pc = "scope"
    /\ ~args.force_full
    /\ LET last_sha == get_last_reviewed_sha(pr.reviews)
       IN  /\ ~last_sha.none /\ last_sha.v # <<>>
           /\ last_sha.v # loc.head_sha
           /\ loc' = [loc EXCEPT
                        !.last_sha = last_sha,
                        !.diff_files = SortedByFilename(FullDiff),
                        !.incremental_info =
                            [none |-> FALSE, base_sha |-> last_sha.v,
                             head_sha |-> loc.head_sha]]
    /\ calls' = calls \o <<"get_reviews", "compare", "get_files">>
    /\ pc' = "setup"
    /\ UNCHANGED <<pr, args, audit_log, log, result>>
    /\ UNCHANGED <<patchVars, frame, sideVars>>

\* Lines 395-406: the comparison raises GithubException; the full diff.
ScopeFallback ==
    /\ pc = "scope"
    /\ ~args.force_full
    /\ LET last_sha == get_last_reviewed_sha(pr.reviews)
       IN  /\ ~last_sha.none /\ last_sha.v # <<>>
           /\ last_sha.v # loc.head_sha
           /\ loc' = [loc EXCEPT !.last_sha = last_sha,
                                 !.diff_files = SortedByFilename(FullDiff)]
    /\ calls' = calls \o <<"get_reviews", "compare", "get_files">>
    /\ pc' = "setup"
    /\ UNCHANGED <<pr, args, audit_log, log, result>>
    /\ UNCHANGED <<patchVars, frame, sideVars>>

\* _get_reviewer(config)
_get_reviewer(config) == config.model \in {"anthropic", "openai"}

\* Lines 412-413: an unknown provider raises ValueError.
SetupUnknownProvider ==
    /\ pc = "setup"
    /\ ~_get_reviewer(args)
    /\ Return(Raised("ValueError"))
    /\ UNCHANGED <<pr, args, loc, audit_log, log, calls>>
    /\ UNCHANGED <<patchVars, frame, sideVars>>

\* Lines 412-440: the reviewer, the configuration, the existing review
\* comments, the empty queued set and the repository tree, whose fetch may
\* fail (tree_ok).
Setup ==
    /\ pc = "setup"
    /\ _get_reviewer(args)
    /\ \E tree_ok \in BOOLEAN :
         loc' = [loc EXCEPT !.batch_limit = args.batch_limit,
                            !.existing_comments = pr.review_comments,
                            !.queued = {},
                            !.repo_tree = tree_ok,
                            !.all_comments = <<>>,
                            !.file_summary = <<>>,
                            !.i = 1]
    /\ calls' = calls \o <<"get_review_comments", "get_git_tree">>
    /\ pc' = "loop"
    /\ UNCHANGED <<pr, args, audit_log, log, result>>
    /\ UNCHANGED <<patchVars, frame, sideVars>>

FileRecord(filename, count, skipped, error) ==
    [filename |-> filename, count |-> count, skipped |-> skipped, error |-> error]

\* Lines 443-446 with the content fetched before the exclusion test.
SkipFile_FetchesFirst ==
    /\ pc = "loop"
    /\ loc.i <= Len(loc.diff_files)
    /\ LET file == loc.diff_files[loc.i]
       IN  /\ _is_excluded(file.filename, ExcludePatterns) \/ ~is_code_file(file.filename)
           /\ loc' = [loc EXCEPT
                        !.file_summary =
                            Append(@, FileRecord(file.filename, 0, TRUE, NoneStr)),
                        !.i = @ + 1]
    /\ calls' = calls \o <<"get_contents">>
    /\ UNCHANGED <<pr, args, pc, audit_log, log, result>>
    /\ UNCHANGED <<patchVars, frame, sideVars>>

\* Lines 443-446: an excluded or non-code file is recorded as skipped.
SkipFile ==
    /\ pc = "loop"
    /\ loc.i <= Len(loc.diff_files)
    /\ LET file == loc.diff_files[loc.i]
       IN  /\ _is_excluded(file.filename, ExcludePatterns) \/ ~is_code_file(file.filename)
           /\ loc' = [loc EXCEPT
                        !.file_summary =
                            Append(@, FileRecord(file.filename, 0, TRUE, NoneStr)),
                        !.i = @ + 1]
    /\ UNCHANGED <<pr, args, pc, audit_log, log, calls, result>>
    /\ UNCHANGED <<patchVars, frame, sideVars>>

\* Lines 450-457 with the GithubException of get_contents let through.
FileFetchFails_Raises ==
    /\ pc = "loop"
    /\ loc.i <= Len(loc.diff_files)
    /\ LET file == loc.diff_files[loc.i]
       IN  /\ ~(_is_excluded(file.filename, ExcludePatterns) \/ ~is_code_file(file.filename))
           /\ loc' = [loc EXCEPT
                        !.file_summary =
                            Append(@, FileRecord(file.filename, 0, FALSE,
                                                 SomeStr(<<"4", "0", "4">>)))]
    /\ calls' = calls \o <<"get_contents">>
    /\ Return(Raised("GithubException"))
    /\ UNCHANGED <<pr, args, audit_log, log>>
    /\ UNCHANGED <<patchVars, frame, sideVars>>

\* Lines 450-457: get_contents raises GithubException; the file is recorded
\* with the error.
FileFetchFails ==
    /\ pc = "loop"
    /\ loc.i <= Len(loc.diff_files)
    /\ LET file == loc.diff_files[loc.i]
       IN  /\ ~(_is_excluded(file.filename, ExcludePatterns) \/ ~is_code_file(file.filename))
           /\ loc' = [loc EXCEPT
                        !.file_summary =
                            Append(@, FileRecord(file.filename, 0, FALSE,
                                                 SomeStr(<<"4", "0", "4">>))),
                        !.i = @ + 1]
    /\ calls' = calls \o <<"get_contents">>
    /\ UNCHANGED <<pr, args, pc, audit_log, log, result>>
    /\ UNCHANGED <<patchVars, frame, sideVars>>

\* utils/context.py, gather_context: the RepoContext, as far as the fetches
\* decide it.  The repo map comes from the tree; a related file (co-changed,
\* sibling or test) is in the context when its get_contents succeeds, and
\* is left out when it raises GithubException (lines 149-154, 187-191,
\* 343-349).
NoContext == [none |-> TRUE, repo_map |-> FALSE, related |-> 0]

ContentFetches == {"ok", "GithubException"}

gather_context(content_fetch) ==
    [none |-> FALSE, repo_map |-> TRUE,
     related |-> IF content_fetch = "ok" THEN 1 ELSE 0]

\* Line 472 when repo.get_commits, or the iteration over the commits
\* (context.py lines 138-144), raises GithubException: neither
\* fetch_cochanged_files, gather_context nor run_review catches it.
GatherContextRaises ==
    /\ pc = "loop"
    /\ loc.i <= Len(loc.diff_files)
    /\ LET file == loc.diff_files[loc.i]
       IN  ~(_is_excluded(file.filename, ExcludePatterns) \/ ~is_code_file(file.filename))
    /\ loc.repo_tree
    /\ calls' = calls \o <<"get_contents", "gather_context">>
    /\ Return(Raised("GithubException"))
    /\ UNCHANGED <<pr, args, loc, audit_log, log>>
    /\ UNCHANGED <<patchVars, frame, sideVars>>

\* Lines 450-479: the content is fetched, the patch truncated, the context
\* gathered when the tree is there, and process_file run on what the
\* provider returns (findings).
ReviewFile ==
    /\ pc = "loop"
    /\ loc.i <= Len(loc.diff_files)
    /\ LET file == loc.diff_files[loc.i]
       IN  /\ ~(_is_excluded(file.filename, ExcludePatterns) \/ ~is_code_file(file.filename))
           /\ \E findings \in ProviderAnswers, content_fetch \in ContentFetches :
                LET r == process_file(file, Truncate(file.patch), findings,
                                      loc.existing_comments, loc.queued)
                IN  /\ r.called \/ findings = <<>>
                    /\ loc.repo_tree \/ content_fetch = "ok"
                    /\ log' = log \cup r.log
                    /\ loc' = [loc EXCEPT
                                 !.repo_context =
                                     IF loc.repo_tree
                                     THEN gather_context(content_fetch)
                                     ELSE NoContext,
                                 !.queued = r.queued,
                                 !.all_comments = @ \o r.results,
                                 !.file_summary =
                                     Append(@, FileRecord(file.filename, Len(r.results),
                                                          FALSE, NoneStr)),
                                 !.i = @ + 1]
                    /\ calls' = calls \o <<"get_contents">>
                                      \o (IF loc.repo_tree THEN <<"gather_context">> ELSE <<>>)
                                      \o (IF r.called THEN <<"review">> ELSE <<>>)
    /\ UNCHANGED <<pr, args, pc, audit_log, result>>
    /\ UNCHANGED <<patchVars, frame, sideVars>>

\* The summary of lines 534-543 with the error test left out of the
\* reviewed files.
ReviewSummary_ErroredAsReviewed(event) ==
    LET IsReviewed(f) == ~f.skipped
        IsSkipped(f) == f.skipped
        reviewed == SelectSeq(loc.file_summary, IsReviewed)
        skipped == SelectSeq(loc.file_summary, IsSkipped)
    IN  [kind |-> "summary",
         head_sha |-> loc.head_sha,
         event |-> event,
         reviewed_files |-> [k \in 1..Len(reviewed) |-> reviewed[k].filename],
         skipped_files |-> [k \in 1..Len(skipped) |-> skipped[k].filename],
         total_comments |-> Len(loc.all_comments),
         comments |-> loc.all_comments]

ReviewSummary(event) ==
    LET IsReviewed(f) == ~f.skipped /\ f.error.none
        IsSkipped(f) == f.skipped
        reviewed == SelectSeq(loc.file_summary, IsReviewed)
        skipped == SelectSeq(loc.file_summary, IsSkipped)
    IN  [kind |-> "summary",
         head_sha |-> loc.head_sha,
         event |-> event,
         reviewed_files |-> [k \in 1..Len(reviewed) |-> reviewed[k].filename],
         skipped_files |-> [k \in 1..Len(skipped) |-> skipped[k].filename],
         total_comments |-> Len(loc.all_comments),
         comments |-> loc.all_comments]

\* Lines 481-495: the verdict; in shadow mode the comments are printed and
\* the summary returned.
AggregateShadow ==
    /\ pc = "loop"
    /\ loc.i > Len(loc.diff_files)
    /\ args.shadow
    /\ loc' = [loc EXCEPT !.event = _determine_event(loc.all_comments)]
    /\ Return(ReviewSummary(_determine_event(loc.all_comments)))
    /\ UNCHANGED <<pr, args, audit_log, log, calls>>
    /\ UNCHANGED <<patchVars, frame, sideVars>>

\* Lines 481-499 without the shadow return of line 483.
Aggregate_IgnoresShadow ==
    /\ pc = "loop"
    /\ loc.i > Len(loc.diff_files)
    /\ loc' = [loc EXCEPT
                 !.event = _determine_event(loc.all_comments),
                 !.summary_body =
                     <<_build_summary(loc.file_summary, loc.all_comments,
                                      loc.incremental_info),
                       MarkerPart(loc.head_sha)>>]
    /\ pc' = "confirm"
    /\ UNCHANGED <<pr, args, audit_log, log, calls, result>>
    /\ UNCHANGED <<patchVars, frame, sideVars>>

\* Lines 481-499 with the commit marker left off the summary body.
Aggregate_NoMarker ==
    /\ pc = "loop"
    /\ loc.i > Len(loc.diff_files)
    /\ ~args.shadow
    /\ loc' = [loc EXCEPT
                 !.event = _determine_event(loc.all_comments),
                 !.summary_body =
                     <<_build_summary(loc.file_summary, loc.all_comments,
                                      loc.incremental_info)>>]
    /\ pc' = "confirm"
    /\ UNCHANGED <<pr, args, audit_log, log, calls, result>>
    /\ UNCHANGED <<patchVars, frame, sideVars>>

\* Lines 481-499: the verdict and the summary body with the commit marker.
Aggregate ==
    /\ pc = "loop"
    /\ loc.i > Len(loc.diff_files)
    /\ ~args.shadow
    /\ loc' = [loc EXCEPT
                 !.event = _determine_event(loc.all_comments),
                 !.summary_body =
                     <<_build_summary(loc.file_summary, loc.all_comments,
                                      loc.incremental_info),
                       MarkerPart(loc.head_sha)>>]
    /\ pc' = "confirm"
    /\ UNCHANGED <<pr, args, audit_log, log, calls, result>>
    /\ UNCHANGED <<patchVars, frame, sideVars>>

\* What the user may type at the prompt.
Answers ==
    { <<"y">>, <<" ", "Y", " ">>, <<"n">>, <<>>, <<"y", "e", "s">> }

\* input(...).strip().lower() == "y"
Accepts(answer) == lower(strip(answer)) = <<"y">>

\* Lines 501-505 and 509-512: without auto_confirm the user is asked, and
\* answers something other than "y".
Decline ==
    /\ pc = "confirm"
    /\ ~args.auto_confirm
    /\ \E answer \in Answers :
         /\ ~Accepts(answer)
         /\ loc' = [loc EXCEPT !.answer = SomeStr(answer)]
    /\ calls' = calls \o <<"input">>
    /\ Return(ReturnedNone)
    /\ UNCHANGED <<pr, args, audit_log, log>>
    /\ UNCHANGED <<patchVars, frame, sideVars>>

\* Lines 501-512 going on whatever the user answers.
Confirm_AnyAnswer ==
    /\ pc = "confirm"
    /\ IF args.auto_confirm
       THEN /\ calls' = calls
            /\ loc' = [loc EXCEPT !.idx = 0, !.total_posted = 0]
       ELSE /\ calls' = calls \o <<"input">>
            /\ \E answer \in Answers :
                 loc' = [loc EXCEPT !.answer = SomeStr(answer),
                                    !.idx = 0, !.total_posted = 0]
    /\ pc' = IF loc.all_comments = <<>> THEN "approve" ELSE "flush"
    /\ UNCHANGED <<pr, args, audit_log, log, result>>
    /\ UNCHANGED <<patchVars, frame, sideVars>>

\* Lines 501-512: auto_confirm, or the user answers "y".
Confirm ==
    /\ pc = "confirm"
    /\ IF args.auto_confirm
       THEN /\ calls' = calls
            /\ loc' = [loc EXCEPT !.idx = 0, !.total_posted = 0]
       ELSE /\ calls' = calls \o <<"input">>
            /\ \E answer \in Answers :
                 /\ Accepts(answer)
                 /\ loc' = [loc EXCEPT !.answer = SomeStr(answer),
                                       !.idx = 0, !.total_posted = 0]
    /\ pc' = IF loc.all_comments = <<>> THEN "approve" ELSE "flush"
    /\ UNCHANGED <<pr, args, audit_log, log, result>>
    /\ UNCHANGED <<patchVars, frame, sideVars>>

PostedReview(body, event, comments) ==
    [body_is_none |-> FALSE, body |-> body, event |-> event, comments |-> comments]

\* Lines 506-507 and 534-543: the APPROVE review of a run without comments.
PostApprove ==
    /\ pc = "approve"
    /\ pr' = [pr EXCEPT !.reviews =
                Append(@, PostedReview(loc.summary_body, "APPROVE", <<>>))]
    /\ calls' = calls \o <<"create_review">>
    /\ Return(ReviewSummary(loc.event))
    /\ UNCHANGED <<args, loc, audit_log, log>>
    /\ UNCHANGED <<patchVars, frame, sideVars>>

\* The number of batches: len(range(0, n, batch_limit)).
NumBatches == (Len(loc.all_comments) + loc.batch_limit - 1) \div loc.batch_limit

\* batches[idx]: all_comments[i : i + batch_limit] for i = idx * batch_limit
Batch(idx) ==
    LET first == idx * loc.batch_limit + 1
        last == IF first + loc.batch_limit - 1 > Len(loc.all_comments)
                THEN Len(loc.all_comments)
                ELSE first + loc.batch_limit - 1
    IN  SubSeq(loc.all_comments, first, last)

\* Line 524: flush_to_file(repo, pr_number, batch)
FlushBatch ==
    /\ pc = "flush"
    /\ audit_log' = audit_log \o Batch(loc.idx)
    /\ calls' = calls \o <<"flush_to_file">>
    /\ pc' = "submit"
    /\ UNCHANGED <<pr, args, loc, log, result>>
    /\ UNCHANGED <<patchVars, frame, sideVars>>

ApiComment(c) == [path |-> c.path, position |-> c.position, body |-> c.body]

\* create_review with the verdict on every batch.
SubmitBatch_VerdictEveryBatch ==
    /\ pc = "submit"
    /\ LET batch == Batch(loc.idx)
           is_last == loc.idx = NumBatches - 1
           batch_body ==
               IF is_last
               THEN loc.summary_body
               ELSE <<[k |-> "progress",
                       posted |-> loc.total_posted + Len(batch),
                       total |-> Len(loc.all_comments)]>>
           batch_event == loc.event
       IN  /\ pr' = [pr EXCEPT !.reviews =
                       Append(@, PostedReview(batch_body, batch_event,
                                  [k \in 1..Len(batch) |-> ApiComment(batch[k])]))]
           /\ loc' = [loc EXCEPT !.total_posted = @ + Len(batch), !.idx = @ + 1]
           /\ IF is_last
              THEN Return(ReviewSummary(loc.event))
              ELSE pc' = "flush" /\ UNCHANGED result
    /\ calls' = calls \o <<"create_review">>
    /\ UNCHANGED <<args, audit_log, log>>
    /\ UNCHANGED <<patchVars, frame, sideVars>>

\* create_review with the summary body, and so the commit marker, on the
\* first batch instead of the last.
SubmitBatch_SummaryOnFirst ==
    /\ pc = "submit"
    /\ LET batch == Batch(loc.idx)
           is_last == loc.idx = NumBatches - 1
           batch_body ==
               IF loc.idx = 0
               THEN loc.summary_body
               ELSE <<[k |-> "progress",
                       posted |-> loc.total_posted + Len(batch),
                       total |-> Len(loc.all_comments)]>>
           batch_event == IF is_last THEN loc.event ELSE "COMMENT"
       IN  /\ pr' = [pr EXCEPT !.reviews =
                       Append(@, PostedReview(batch_body, batch_event,
                                  [k \in 1..Len(batch) |-> ApiComment(batch[k])]))]
           /\ loc' = [loc EXCEPT !.total_posted = @ + Len(batch), !.idx = @ + 1]
           /\ IF is_last
              THEN Return(ReviewSummary(loc.event))
              ELSE pc' = "flush" /\ UNCHANGED result
    /\ calls' = calls \o <<"create_review">>
    /\ UNCHANGED <<args, audit_log, log>>
    /\ UNCHANGED <<patchVars, frame, sideVars>>

\* Lines 517-527, and 529-543 after the last batch: create_review.
SubmitBatch ==
    /\ pc = "submit"
    /\ LET batch == Batch(loc.idx)
           is_last == loc.idx = NumBatches - 1
           batch_body ==
               IF is_last
               THEN loc.summary_body
               ELSE <<[k |-> "progress",
                       posted |-> loc.total_posted + Len(batch),
                       total |-> Len(loc.all_comments)]>>
           batch_event == IF is_last THEN loc.event ELSE "COMMENT"
       IN  /\ pr' = [pr EXCEPT !.reviews =
                       Append(@, PostedReview(batch_body, batch_event,
                                  [k \in 1..Len(batch) |-> ApiComment(batch[k])]))]
           /\ loc' = [loc EXCEPT !.total_posted = @ + Len(batch), !.idx = @ + 1]
           /\ IF is_last
              THEN Return(ReviewSummary(loc.event))
              ELSE pc' = "flush" /\ UNCHANGED result
    /\ calls' = calls \o <<"create_review">>
    /\ UNCHANGED <<args, audit_log, log>>
    /\ UNCHANGED <<patchVars, frame, sideVars>>

\* Lines 506 and 526: create_review raises GithubException, which run_review
\* does not catch.
SubmitFails ==
    /\ pc \in {"approve", "submit"}
    /\ calls' = calls \o <<"create_review">>
    /\ Return(Raised("GithubException"))
    /\ UNCHANGED <<pr, args, loc, audit_log, log>>
    /\ UNCHANGED <<patchVars, frame, sideVars>>

Next ==
    \/ PullNotFound
    \/ Start
    \/ ScopeFull
    \/ ScopeNothingNew
    \/ ScopeIncremental
    \/ ScopeFallback
    \/ SetupUnknownProvider
    \/ Setup
    \/ SkipFile
    \/ FileFetchFails
    \/ GatherContextRaises
    \/ ReviewFile
    \/ AggregateShadow
    \/ Aggregate
    \/ Decline
    \/ Confirm
    \/ PostApprove
    \/ FlushBatch
    \/ SubmitBatch
    \/ SubmitFails

Spec == Init /\ [][Next]_vars

(***************************************************************************)
(* SpecFile: the calls of process_file that run_review makes with one      *)
(* queued set (lines 474-477), for every file and every list of findings,  *)
(* one finding a step.                                                     *)
(***************************************************************************)
FileEmptyPatch ==
    [filename |-> <<"e", ".", "p", "y">>, status |-> "modified", patch |-> <<>>]

SpecFiles == {FileA, FileB, FileRemoved, FileEmptyPatch}

InitFile ==
    /\ patch_text = <<>>
    /\ scan = ScanInit
    /\ lookup = NoLookup
    /\ pr \in [draft : {FALSE}, reviews : {<<>>}, review_comments : ExistingComments]
    /\ args = [review_draft_prs |-> FALSE, force_full |-> FALSE, shadow |-> FALSE,
               auto_confirm |-> FALSE, batch_limit |-> 1, model |-> "anthropic"]
    /\ pc = "process_file"
    /\ loc = [NoLocals EXCEPT !.existing_comments = pr.review_comments]
    /\ audit_log = <<>>
    /\ log = {}
    /\ frame = NoFrame
    /\ calls = <<>>
    /\ result = Running
    /\ gateway = NoGateway
    /\ cmd = NoCmd
    /\ context = NoRendering

\* Lines 277-295: process_file is called for a file; it returns at once for
\* an empty patch or a status other than modified and added, and otherwise
\* computes the positions and calls the provider.
CallProcessFile ==
    /\ pc = "process_file"
    /\ ~frame.active
    /\ loc.i < MaxCalls
    /\ \E file \in SpecFiles :
         LET patch == Truncate(file.patch)
         IN  IF patch = <<>> \/ file.status \notin {"modified", "added"}
             THEN /\ loc' = [loc EXCEPT !.i = @ + 1]
                  /\ UNCHANGED frame
             ELSE /\ frame' = [active |-> TRUE, file |-> file.filename, patch |-> patch,
                               diff_positions |-> get_diff_positions(patch),
                               results |-> <<>>, n |-> 0]
                  /\ UNCHANGED loc
    /\ UNCHANGED <<pr, args, pc, audit_log, log, calls, result>>
    /\ UNCHANGED <<patchVars, sideVars>>

\* Lines 296-322: one iteration of the loop, on the next finding of the
\* provider's answer.
NextFinding ==
    /\ pc = "process_file"
    /\ frame.active
    /\ frame.n < MaxFindings
    /\ \E finding \in Findings :
         LET acc == ProcessFinding(
                        [results |-> frame.results, queued |-> loc.queued, log |-> log],
                        frame.file, frame.patch, frame.diff_positions,
                        loc.existing_comments, finding)
         IN  /\ frame' = [frame EXCEPT !.results = acc.results, !.n = @ + 1]
             /\ loc' = [loc EXCEPT !.queued = acc.queued]
             /\ log' = acc.log
    /\ UNCHANGED <<pr, args, pc, audit_log, calls, result>>
    /\ UNCHANGED <<patchVars, sideVars>>

\* Line 324 and run_review's line 477: the answer has no more findings;
\* process_file returns and the caller extends all_comments.
ReturnResults ==
    /\ pc = "process_file"
    /\ frame.active
    /\ loc' = [loc EXCEPT !.all_comments = @ \o frame.results, !.i = @ + 1]
    /\ frame' = NoFrame
    /\ UNCHANGED <<pr, args, pc, audit_log, log, calls, result>>
    /\ UNCHANGED <<patchVars, sideVars>>

NextFile == CallProcessFile \/ NextFinding \/ ReturnResults

SpecFile == InitFile /\ [][NextFile]_vars

(***************************************************************************)
(* providers/base.py: BaseReviewer.review and _call_with_retry.            *)
(* SpecRetry: one review call; what each _call_api attempt will do is      *)
(* drawn at the start (script).                                            *)
(***************************************************************************)
MAX_RETRIES == 3

\* A Python value as json.loads returns it: its type and what iterating it
\* yields.  The elements "f1" and "f2" stand for objects with line, comment
\* and severity, "5" for a number; a dict yields its keys.
PyValue(type, items) == [type |-> type, items |-> items]

PyList(items) == PyValue("list", items)

\* The code fence: three backquotes.
Fence == "'''"

\* A raw text is a sequence of tokens: the fence, the word json, white
\* space and JSON texts.  RawResponse is the JSON text, bare or inside a
\* fence marked json.
RawResponse(fenced, json) ==
    IF fenced THEN <<Fence, "json", "\n", json, "\n", Fence>> ELSE <<json>>

JsonTexts == {"[]", "[f1]", "[f1, f2]", "oops"}

\* json.loads on one token; JSONDecodeError for what is not a JSON text.
JsonLoads(text) ==
    CASE text = "[]" -> [ok |-> TRUE, value |-> PyList(<<>>)]
      [] text = "[f1]" -> [ok |-> TRUE, value |-> PyList(<<"f1">>)]
      [] text = "[f1, f2]" -> [ok |-> TRUE, value |-> PyList(<<"f1", "f2">>)]
      [] text = "[5]" -> [ok |-> TRUE, value |-> PyList(<<"5">>)]
      [] text = "{f1}" -> [ok |-> TRUE, value |-> PyValue("dict", <<"line", "comment">>)]
      [] text = "{}" -> [ok |-> TRUE, value |-> PyValue("dict", <<>>)]
      [] text = "5" -> [ok |-> TRUE, value |-> PyValue("int", <<>>)]
      [] text = "null" -> [ok |-> TRUE, value |-> PyValue("NoneType", <<>>)]
      [] OTHER -> [ok |-> FALSE, value |-> PyList(<<>>)]

\* json.loads on a text: one JSON text, white space around it apart.
json_loads(text) ==
    IF Len(strip(text)) = 1
    THEN JsonLoads(strip(text)[1])
    ELSE [ok |-> FALSE, value |-> PyList(<<>>)]

RECURSIVE lstrip(_)
lstrip(s) == IF s # <<>> /\ IsSpace(s[1]) THEN lstrip(Tail(s)) ELSE s

RECURSIVE rstrip(_)
rstrip(s) ==
    IF s # <<>> /\ IsSpace(s[Len(s)]) THEN rstrip(SubSeq(s, 1, Len(s) - 1)) ELSE s

\* re.sub(r"^```(?:json)?\s*", "", text)
SubLeadingFence(text) ==
    IF text # <<>> /\ text[1] = Fence
    THEN IF Len(text) >= 2 /\ text[2] = "json"
         THEN lstrip(SubSeq(text, 3, Len(text)))
         ELSE lstrip(Tail(text))
    ELSE text

\* re.sub(r"\s*```$", "", text)
SubTrailingFence(text) ==
    IF text # <<>> /\ text[Len(text)] = Fence
    THEN rstrip(SubSeq(text, 1, Len(text) - 1))
    ELSE text

\* _parse: one leading and one trailing fence are removed and the rest is
\* loaded; what json.loads returns is returned, [] on JSONDecodeError.
_parse(raw) ==
    LET cleaned == SubTrailingFence(strip(SubLeadingFence(strip(raw))))
        loaded == json_loads(cleaned)
    IN  IF loaded.ok THEN loaded.value ELSE PyList(<<>>)

ApiRaises == [raises |-> TRUE, raw |-> RawResponse(FALSE, "[]")]

ApiReturns(raw) == [raises |-> FALSE, raw |-> raw]

\* What one call of _call_api may do.
ApiOutcomes ==
    {ApiRaises} \cup
    {ApiReturns(RawResponse(FALSE, t)) : t \in JsonTexts} \cup
    {ApiReturns(RawResponse(TRUE, "[f1]"))}

InitRetry ==
    /\ patch_text = <<>>
    /\ scan = ScanInit
    /\ lookup = NoLookup
    /\ pr = [draft |-> FALSE, reviews |-> <<>>, review_comments |-> <<>>]
    /\ args = [review_draft_prs |-> FALSE, force_full |-> FALSE, shadow |-> FALSE,
               auto_confirm |-> FALSE, batch_limit |-> 1, model |-> "anthropic"]
    /\ pc = "idle"
    /\ loc = NoLocals
    /\ audit_log = <<>>
    /\ log = {}
    /\ frame = NoFrame
    /\ calls = <<>>
    /\ result = Running
    /\ gateway \in [pc : {"idle"}, script : [1..MAX_RETRIES -> ApiOutcomes],
                    attempt : {0}, events : {<<>>}, findings : {<<>>}]
    /\ cmd = NoCmd
    /\ context = NoRendering

ApiCall == [e |-> "call", delay |-> 0]

Sleep(delay) == [e |-> "sleep", delay |-> delay]

\* review, lines 60-62: the prompts are built and _call_with_retry entered.
Review ==
    /\ gateway.pc = "idle"
    /\ gateway' = [gateway EXCEPT !.pc = "attempt", !.attempt = 0]
    /\ UNCHANGED <<patchVars, runVars, cmd, context>>

\* Lines 91-93 and 63-65: _call_api returns; review parses what it got.
CallApiReturns ==
    /\ gateway.pc = "attempt"
    /\ LET outcome == gateway.script[gateway.attempt + 1]
       IN  /\ ~outcome.raises
           /\ gateway' = [gateway EXCEPT
                            !.pc = "returned",
                            !.events = Append(@, ApiCall),
                            !.findings = _parse(outcome.raw)]
    /\ UNCHANGED <<patchVars, runVars, cmd, context>>

\* _call_api raises and the gateway sleeps after every failed attempt, the
\* last one too.
CallApiRaises_SleepsAfterLast ==
    /\ gateway.pc = "attempt"
    /\ LET outcome == gateway.script[gateway.attempt + 1]
           delay == 2^gateway.attempt
       IN  /\ outcome.raises
           /\ IF gateway.attempt = MAX_RETRIES - 1
              THEN gateway' = [gateway EXCEPT
                                 !.pc = "returned",
                                 !.events = @ \o <<ApiCall, Sleep(delay)>>,
                                 !.findings = PyList(<<>>)]
              ELSE gateway' = [gateway EXCEPT
                                 !.events = @ \o <<ApiCall, Sleep(delay)>>,
                                 !.attempt = @ + 1]
    /\ UNCHANGED <<patchVars, runVars, cmd, context>>

\* Lines 91-111 and 63-64: _call_api raises.  After the last attempt
\* _call_with_retry returns None and review returns []; before it, the
\* gateway sleeps 2**attempt seconds and tries again.
CallApiRaises ==
    /\ gateway.pc = "attempt"
    /\ LET outcome == gateway.script[gateway.attempt + 1]
           delay == 2^gateway.attempt
       IN  /\ outcome.raises
           /\ IF gateway.attempt = MAX_RETRIES - 1
              THEN gateway' = [gateway EXCEPT
                                 !.pc = "returned",
                                 !.events = Append(@, ApiCall),
                                 !.findings = PyList(<<>>)]
              ELSE gateway' = [gateway EXCEPT
                                 !.events = @ \o <<ApiCall, Sleep(delay)>>,
                                 !.attempt = @ + 1]
    /\ UNCHANGED <<patchVars, runVars, cmd, context>>

NextRetry == Review \/ CallApiReturns \/ CallApiRaises

SpecRetry == InitRetry /\ [][NextRetry]_vars

(***************************************************************************)
(* cli/commands/review.py: review_cmd, with the stores of prlens_store.    *)
(* SpecCmd: the command's checks, then run_review as in Spec, then the     *)
(* save.  pc is "cmd", "cmd_repo", "cmd_pull" before run_review, run_review's *)
(* own places during it, and "exit" when the command has ended.            *)
(***************************************************************************)
Stores == {"noop", "sqlite", "gist"}

\* The record the command makes of the summary (_summary_to_record).
ReviewRecord(summary) ==
    [head_sha |-> summary.head_sha, event |-> summary.event,
     total_comments |-> summary.total_comments,
     files_reviewed |-> Len(summary.reviewed_files)]

\* save of each store: what it leaves in the history, whether it warns and
\* whether it raises, when the write underneath fails (fails) or not.
NoOpStore_save(history, record, fails) ==
    [history |-> history, warned |-> FALSE, raises |-> FALSE]

\* The INSERT and the commit are not inside any try.
SQLiteStore_save(history, record, fails) ==
    IF fails
    THEN [history |-> history, warned |-> FALSE, raises |-> TRUE]
    ELSE [history |-> Append(history, record), warned |-> FALSE, raises |-> FALSE]

\* Reading and editing the gist is inside try / except Exception, which
\* prints a warning.
GistStore_save(history, record, fails) ==
    IF fails
    THEN [history |-> history, warned |-> TRUE, raises |-> FALSE]
    ELSE [history |-> Append(history, record), warned |-> FALSE, raises |-> FALSE]

InitCmd ==
    /\ patch_text = <<>>
    /\ scan = ScanInit
    /\ lookup = NoLookup
    /\ pr \in [draft : BOOLEAN, reviews : ReviewHistories,
               review_comments : {<<>>}]
    /\ args \in [review_draft_prs : {FALSE}, force_full : {FALSE},
                 shadow : BOOLEAN, auto_confirm : {FALSE},
                 batch_limit : {1}, model : {"anthropic", "gemini"}]
    /\ pc = "cmd"
    /\ loc = NoLocals
    /\ audit_log = <<>>
    /\ log = {}
    /\ frame = NoFrame
    /\ calls = <<>>
    /\ result = Running
    /\ gateway = NoGateway
    /\ cmd \in [store : Stores, token : BOOLEAN, api_key : BOOLEAN,
                save_calls : {0}, history : {<<>>}, warned : {FALSE},
                exit : {"running"}]
    \* the credential is looked at for the two known providers only, and
    \* after the token
    /\ (args.model = "gemini" \/ ~cmd.token) => cmd.api_key
    /\ context = NoRendering

Exit(status) ==
    /\ pc' = "exit"
    /\ cmd' = [cmd EXCEPT !.exit = status]

\* Lines 110-125: the configuration is loaded and the token and the
\* credential of the configured provider looked for; none of it calls the
\* host.
CmdConfig ==
    /\ pc = "cmd"
    /\ IF ~cmd.token
       THEN Exit("UsageError")
       ELSE IF args.model \in {"anthropic", "openai"} /\ ~cmd.api_key
       THEN Exit("UsageError")
       ELSE pc' = "cmd_repo" /\ UNCHANGED cmd
    /\ UNCHANGED <<pr, args, loc, audit_log, log, frame, calls, result>>
    /\ UNCHANGED <<patchVars, gateway, context>>

\* Lines 127-136: get_repo; without --pr the open pull requests are listed
\* and one is asked for, and the command ends when there is none.
CmdGetRepo ==
    /\ pc = "cmd_repo"
    /\ \E outcome \in {"pr given", "pr chosen", "none open", "GithubException"} :
         CASE outcome = "pr given" ->
                /\ calls' = calls \o <<"get_repo">>
                /\ pc' = "cmd_pull"
                /\ UNCHANGED cmd
           [] outcome = "pr chosen" ->
                /\ calls' = calls \o <<"get_repo", "get_pulls", "prompt">>
                /\ pc' = "cmd_pull"
                /\ UNCHANGED cmd
           [] outcome = "none open" ->
                /\ calls' = calls \o <<"get_repo", "get_pulls">>
                /\ Exit("ok")
           [] outcome = "GithubException" ->
                /\ calls' = calls \o <<"get_repo">>
                /\ Exit("GithubException")
    /\ UNCHANGED <<pr, args, loc, audit_log, log, frame, result>>
    /\ UNCHANGED <<patchVars, gateway, context>>

\* Lines 139-142: the pull request is fetched for its title, and run_review
\* is entered.
CmdGetPull ==
    /\ pc = "cmd_pull"
    /\ calls' = calls \o <<"get_pull">>
    /\ \/ pc' = "start" /\ UNCHANGED cmd
       \/ Exit("GithubException")
    /\ UNCHANGED <<pr, args, loc, audit_log, log, frame, result>>
    /\ UNCHANGED <<patchVars, gateway, context>>

\* run_review raised: the command ends with the exception.
CmdRunRaised ==
    /\ pc = "done"
    /\ result.kind = "raised"
    /\ Exit(result.exc)
    /\ UNCHANGED <<pr, args, loc, audit_log, log, frame, calls, result>>
    /\ UNCHANGED <<patchVars, gateway, context>>

\* Lines 152-157 saving whatever run_review returned.
CmdNoSummary_Saves ==
    /\ pc = "done"
    /\ result.kind = "None"
    /\ pc' = "exit"
    /\ cmd' = [cmd EXCEPT !.save_calls = @ + 1, !.exit = "ok"]
    /\ UNCHANGED <<pr, args, loc, audit_log, log, frame, calls, result>>
    /\ UNCHANGED <<patchVars, gateway, context>>

\* Lines 152-153: run_review returned None; nothing is saved.
CmdNoSummary ==
    /\ pc = "done"
    /\ result.kind = "None"
    /\ Exit("ok")
    /\ UNCHANGED <<pr, args, loc, audit_log, log, frame, calls, result>>
    /\ UNCHANGED <<patchVars, gateway, context>>

\* Lines 153-157: the summary is made a record and saved to the store of
\* the context; what save raises leaves the command.
CmdSave ==
    /\ pc = "done"
    /\ result.kind = "summary"
    /\ \E fails \in BOOLEAN :
         LET record == ReviewRecord(result)
             r == CASE cmd.store = "noop" ->
                         NoOpStore_save(cmd.history, record, fails)
                    [] cmd.store = "sqlite" ->
                         SQLiteStore_save(cmd.history, record, fails)
                    [] cmd.store = "gist" ->
                         GistStore_save(cmd.history, record, fails)
         IN  /\ pc' = "exit"
             /\ cmd' = [cmd EXCEPT
                          !.save_calls = @ + 1,
                          !.history = r.history,
                          !.warned = r.warned,
                          !.exit = IF r.raises THEN "sqlite3.Error" ELSE "ok"]
    /\ UNCHANGED <<pr, args, loc, audit_log, log, frame, calls, result>>
    /\ UNCHANGED <<patchVars, gateway, context>>

NextCmd ==
    \/ CmdConfig
    \/ CmdGetRepo
    \/ CmdGetPull
    \/ Next
    \/ CmdRunRaised
    \/ CmdNoSummary
    \/ CmdSave

SpecCmd == InitCmd /\ [][NextCmd]_vars

(***************************************************************************)
(* utils/context.py: build_context_section.                                *)
(* SpecContext: the rendering of RepoContexts whose contents have the      *)
(* sizes that decide the budget.  A text is a sequence of pieces, each     *)
(* the literal text of the source (its length computed from it) or n       *)
(* characters of a content; the backquote of the source is written ' in    *)
(* the literals.                                                           *)
(***************************************************************************)
_MAX_CONTEXT_CHARS == 20000

Literal(s) == [of |-> "literal", text |-> s, n |-> Len(s)]

Content(of, n) == [of |-> of, text |-> "", n |-> n]

\* len(text)
RECURSIVE Length(_)
Length(text) == IF text = <<>> THEN 0 ELSE Head(text).n + Length(Tail(text))

\* sep.join(parts)
RECURSIVE Join(_, _)
Join(sep, parts) ==
    IF parts = <<>> THEN <<>>
    ELSE IF Len(parts) = 1 THEN parts[1]
    ELSE parts[1] \o <<Literal(sep)>> \o Join(sep, Tail(parts))

RepoContext(repo_map, cochanged_files, sibling_files, test_file_path, test_file_content) ==
    [none |-> FALSE, repo_map |-> repo_map, cochanged_files |-> cochanged_files,
     sibling_files |-> sibling_files, test_file_path |-> test_file_path,
     test_file_content |-> test_file_content]

\* Lines 249-259
repo_map_section(rc) ==
    IF rc.repo_map = 0 THEN <<>>
    ELSE <<Literal("## Repository File Tree\n"),
           Literal("Use this to understand the project structure, layer boundaries, "),
           Literal("and whether test files exist for the modules being changed.\n"),
           Literal("'''\n"), Content("repo_map", rc.repo_map), Literal("\n'''")>>

\* "\n\n".join(f"### {path}\n```\n{content}\n```" for path, content in files.items())
file_blocks(of, files) ==
    Join("\n\n", [i \in 1..Len(files) |->
                    <<Literal("### "), Literal(files[i].path), Literal("\n'''\n"),
                      Content(of, files[i].content), Literal("\n'''")>>])

\* Lines 261-273
cochanged_section(rc) ==
    IF rc.cochanged_files = <<>> THEN <<>>
    ELSE <<Literal("## Files Frequently Changed Together With This File\n"),
           Literal("These files were modified in the same commits historically. "),
           Literal("They are likely coupled through shared contracts, configuration, "),
           Literal("or runtime dependencies. Use them to spot inconsistencies.\n\n")>>
         \o file_blocks("cochanged", rc.cochanged_files)

\* Lines 275-286
sibling_section(rc) ==
    IF rc.sibling_files = <<>> THEN <<>>
    ELSE <<Literal("## Sibling Files (same directory)\n"),
           Literal("These files share the same directory and likely follow the same "),
           Literal("conventions. Use them to flag deviations from established patterns.\n\n")>>
         \o file_blocks("sibling", rc.sibling_files)

\* Lines 288-297: the path and the content must both be there and not empty.
test_section(rc) ==
    IF /\ ~rc.test_file_path.none /\ rc.test_file_path.v # ""
       /\ ~rc.test_file_content.none /\ rc.test_file_content.n > 0
    THEN <<Literal("## Test / Spec File ('"), Literal(rc.test_file_path.v), Literal("')\n"),
           Literal("Use this to avoid flagging already-tested behaviour and to "),
           Literal("identify lines added in the diff that have no test coverage.\n"),
           Literal("'''\n"), Content("test", rc.test_file_content.n), Literal("\n'''")>>
    ELSE <<>>

\* Lines 303-308 with the co-changed files dropped before the siblings.
priority_sets_CochangedFirst(rc) ==
    << <<repo_map_section(rc), cochanged_section(rc), sibling_section(rc), test_section(rc)>>,
       <<repo_map_section(rc), sibling_section(rc), test_section(rc)>>,
       <<repo_map_section(rc), test_section(rc)>>,
       <<test_section(rc)>> >>

\* Lines 303-308
priority_sets(rc) ==
    << <<repo_map_section(rc), cochanged_section(rc), sibling_section(rc), test_section(rc)>>,
       <<repo_map_section(rc), cochanged_section(rc), test_section(rc)>>,
       <<repo_map_section(rc), test_section(rc)>>,
       <<test_section(rc)>> >>

\* The contents' sizes: small, at the per-file limits, and over the
\* ceiling by themselves.
ContentSizes == {10, 3000, _MAX_CONTEXT_CHARS}

SamplePaths == <<"src/a.py", "src/b.py", "src/c.py">>

\* The dicts of up to MaxContextFiles files, the paths distinct.
FileDicts ==
    UNION {{[i \in 1..n |-> [path |-> SamplePaths[i], content |-> sizes[i]]] :
              sizes \in [1..n -> ContentSizes]} : n \in 0..MaxContextFiles}

\* The repo maps: none, a small one, one that fills most of the budget,
\* the one whose section is as long as the ceiling, and one beyond it.
RepoMapSizes ==
    {0, 10, 19000,
     _MAX_CONTEXT_CHARS - Length(repo_map_section([repo_map |-> 1])) + 1,
     25000}

TestFiles ==
    {[path |-> [none |-> TRUE, v |-> ""], content |-> [none |-> TRUE, n |-> 0]],
     [path |-> [none |-> FALSE, v |-> "tests/test_a.py"],
      content |-> [none |-> TRUE, n |-> 0]]}
    \cup {[path |-> [none |-> FALSE, v |-> "tests/test_a.py"],
           content |-> [none |-> FALSE, n |-> n]] : n \in {10, _MAX_CONTEXT_CHARS}}

RepoContexts ==
    {NoRendering.repo_context} \cup
    {RepoContext(m, c, sib, t.path, t.content) :
        m \in RepoMapSizes, c \in FileDicts, sib \in FileDicts, t \in TestFiles}

InitContext ==
    /\ patch_text = <<>>
    /\ scan = ScanInit
    /\ lookup = NoLookup
    /\ pr = [draft |-> FALSE, reviews |-> <<>>, review_comments |-> <<>>]
    /\ args = [review_draft_prs |-> FALSE, force_full |-> FALSE, shadow |-> FALSE,
               auto_confirm |-> FALSE, batch_limit |-> 1, model |-> "anthropic"]
    /\ pc = "idle"
    /\ loc = NoLocals
    /\ audit_log = <<>>
    /\ log = {}
    /\ frame = NoFrame
    /\ calls = <<>>
    /\ result = Running
    /\ gateway = NoGateway
    /\ cmd = NoCmd
    /\ context \in [pc : {"idle"}, repo_context : RepoContexts, k : {0},
                    returned : {<<>>}]

\* Lines 244-245: no context, no section.
BuildNone ==
    /\ context.pc = "idle"
    /\ context.repo_context.none
    /\ context' = [context EXCEPT !.pc = "returned", !.returned = <<>>]
    /\ UNCHANGED <<patchVars, runVars, gateway, cmd>>

\* Lines 246-308: the sections are built and the loop entered.
BuildSections ==
    /\ context.pc = "idle"
    /\ ~context.repo_context.none
    /\ context' = [context EXCEPT !.pc = "try", !.k = 1]
    /\ UNCHANGED <<patchVars, runVars, gateway, cmd>>

\* The present sections of a candidate set.
Parts(candidate_set) == SelectSeq(candidate_set, LAMBDA section : section # <<>>)

\* Lines 310-316: one turn of the loop over the priority sets.
TryCandidateSet ==
    /\ context.pc = "try"
    /\ context.k <= Len(priority_sets(context.repo_context))
    /\ LET parts == Parts(priority_sets(context.repo_context)[context.k])
           rendered == Join("\n\n", parts)
       IN  IF parts = <<>>
           THEN context' = [context EXCEPT !.pc = "returned", !.returned = <<>>]
           ELSE IF Length(rendered) <= _MAX_CONTEXT_CHARS
           THEN context' = [context EXCEPT
                              !.pc = "returned",
                              !.returned = <<Literal("\n\n")>> \o rendered
                                           \o <<Literal("\n")>>]
           ELSE context' = [context EXCEPT !.k = @ + 1]
    /\ UNCHANGED <<patchVars, runVars, gateway, cmd>>

\* Lines 318-322: no set fits; a warning is logged.
NothingFits ==
    /\ context.pc = "try"
    /\ context.k > Len(priority_sets(context.repo_context))
    /\ context' = [context EXCEPT !.pc = "returned", !.returned = <<>>]
    /\ UNCHANGED <<patchVars, runVars, gateway, cmd>>

NextContext == BuildNone \/ BuildSections \/ TryCandidateSet \/ NothingFits

SpecContext == InitContext /\ [][NextContext]_vars

(***************************************************************************)
(* The patch scanners: what a unified diff says, stated without the loop.  *)
(***************************************************************************)
Lines == splitlines(patch_text)

\* The number of non-header lines among the first i lines.
ContentCount(lines, i) == Cardinality({k \in 1..i : ~IsHeader(lines[k])})

\* The index of the last hunk header before line i, 0 if there is none.
LastHeader(lines, i) ==
    IF \E j \in 1..(i - 1) : IsHeader(lines[j])
    THEN CHOOSE j \in 1..(i - 1) :
             IsHeader(lines[j]) /\ \A k \in (j + 1)..(i - 1) : ~IsHeader(lines[k])
    ELSE 0

Malformed(line) == IsHeader(line) /\ ~ParseNewFileStart(line).ok

\* Line i lies in a hunk whose header gives the new-file start line.
InValidHunk(lines, i) ==
    /\ ~IsHeader(lines[i])
    /\ LastHeader(lines, i) # 0
    /\ ~Malformed(lines[LastHeader(lines, i)])

\* Line i follows a malformed header, with no valid header in between.
AfterMalformed(lines, i) ==
    /\ ~IsHeader(lines[i])
    /\ LastHeader(lines, i) # 0
    /\ Malformed(lines[LastHeader(lines, i)])

\* The new-file line number of line i of a valid hunk: the hunk's start plus
\* the lines before it in the hunk that are not removed lines; Removed says
\* which lines are removed lines.
NewFileLine(lines, i, Removed(_)) ==
    LET h == LastHeader(lines, i)
    IN  ParseNewFileStart(lines[h]).v
          + Cardinality({k \in (h + 1)..(i - 1) : ~Removed(lines[k])})

FirstCharMinus(line) == StartsWith(line, <<"-">>)

\* C3, in every state of the scan: each key of the position map is the
\* new-file line number (the hunk's start plus the lines before it in the
\* hunk that are not removed lines) of a scanned line that begins with "+"
\* and not with "+++", and its value is the 1-based count of the non-"@@"
\* lines up to and including that line; the position counter is the count
\* of all non-"@@" lines scanned so far, whatever hunk headers were passed.
C3_State ==
    /\ \A n \in DOMAIN scan.positions :
         \E i \in 1..scan.idx :
            /\ IsAddedLine(Lines[i])
            /\ InValidHunk(Lines, i)
            /\ NewFileLine(Lines, i, FirstCharMinus) = n
            /\ scan.positions[n] = ContentCount(Lines, i)
    /\ scan.diff_position = ContentCount(Lines, scan.idx)

\* C3, in every step of the scan: the counter never decreases, and a
\* position the step assigns is larger than every position assigned before.
C3_Step ==
    /\ scan'.diff_position >= scan.diff_position
    /\ \A n \in DOMAIN scan'.positions :
         (n \notin DOMAIN scan.positions \/ scan'.positions[n] # scan.positions[n])
            => \A m \in DOMAIN scan.positions :
                  scan'.positions[n] > scan.positions[m]

\* C3: for every patch text, each key n of get_diff_positions(patch) is the
\* new-file line number of a line that begins with "+" (and not "+++"); its
\* value is the 1-based count of non-"@@" lines from the start of the patch
\* up to and including that line; positions assigned in scan order are
\* strictly increasing and the counter is never reset by a hunk header.
C3_PositionsOfAddedLines == [](C3_State) /\ [][C3_Step]_vars

\* C4, first half, as a step of the scan: a line whose first character is
\* "-" takes one diff position, records no key and leaves the new-file line
\* counter alone.
C4_Step ==
    (/\ scan'.idx = scan.idx + 1
     /\ FirstCharMinus(Lines[scan'.idx]))
        => /\ scan'.diff_position = scan.diff_position + 1
           /\ scan'.positions = scan.positions
           /\ scan'.file_line = scan.file_line

\* C4, second half: every scanned added line of a valid hunk is keyed by the
\* hunk's start plus the number of lines before it in the hunk that are not
\* removed lines (first character "-").
C4_State ==
    \A i \in 1..scan.idx :
        (IsAddedLine(Lines[i]) /\ InValidHunk(Lines, i))
            => NewFileLine(Lines, i, FirstCharMinus) \in DOMAIN scan.positions

\* C4: for every unified diff, a removed line (a hunk content line whose
\* first character is "-") consumes one diff position but never becomes a
\* key of the position map and never advances the new-file line counter;
\* therefore every added line that follows a run of removed lines is keyed
\* by the hunk's starting new-file line plus the number of added and context
\* lines that precede it in the hunk.
C4_RemovedLinesDoNotAdvance == [](C4_State) /\ [][C4_Step]_vars

\* C5: a hunk header from which the new-file start cannot be parsed raises
\* in neither scanner; no position is recorded for, and no line content is
\* returned from, a line between that header and the next valid header; and
\* the position counter still counts those lines, so that the positions of
\* later valid hunks stay cumulative.
C5_MalformedHeader ==
    /\ ~scan.raised
    /\ ~lookup.raised
    /\ \A i \in 1..scan.idx :
         AfterMalformed(Lines, i)
            => \A n \in DOMAIN scan.positions :
                  scan.positions[n] # ContentCount(Lines, i)
    /\ lookup.at # 0 => InValidHunk(Lines, lookup.at)
    /\ scan.diff_position = ContentCount(Lines, scan.idx)
    /\ \A n \in DOMAIN scan.positions :
         \E i \in 1..scan.idx :
            InValidHunk(Lines, i) /\ scan.positions[n] = ContentCount(Lines, i)

\* C5 witness: a malformed header followed by an added line, then a valid
\* hunk whose added line got the cumulative position 2 and whose content
\* was looked up.
C5_Witness ==
    /\ scan.idx = Len(Lines)
    /\ \E i \in 1..Len(Lines) : AfterMalformed(Lines, i) /\ IsAddedLine(Lines[i])
    /\ \E n \in DOMAIN scan.positions : scan.positions[n] = 2
    /\ lookup.at # 0

(***************************************************************************)
(* process_file: positions and deduplication (SpecFile).                   *)
(***************************************************************************)
\* The file of SpecFiles with this path.
FileOf(path) == CHOOSE f \in SpecFiles : f.filename = path

\* The text of the finding a Comment was made of: the body after the
\* severity tag and its blank line.
TextOf(c) == SubSeq(c.body, FirstIndex(c.body, NL) + 2, Len(c.body))

\* C1: every Comment process_file returned has a line that is a key of
\* get_diff_positions of the patch process_file was given for that file, and
\* its position is the value of that key; so no finding on a line that is
\* not a key has produced a Comment.
C1_CommentsAreInTheDiff ==
    \A k \in 1..Len(loc.all_comments) :
        LET c == loc.all_comments[k]
            positions == get_diff_positions(Truncate(FileOf(c.path).patch))
        IN  /\ c.line \in DOMAIN positions
            /\ c.position = positions[c.line]

\* Findings on a line of the diff and on a line outside it were processed,
\* and Comments came out for two files.
C1_Witness ==
    /\ <<"not in diff positions", 3>> \in log
    /\ \E k \in 1..Len(loc.all_comments) :
         loc.all_comments[k].path = FileA.filename /\ loc.all_comments[k].position = 2
    /\ \E k \in 1..Len(loc.all_comments) :
         loc.all_comments[k].path = FileB.filename /\ loc.all_comments[k].position = 1

\* The triple a Comment is deduplicated by.
Triple(c) == <<c.path, c.line, strip(TextOf(c))>>

\* The line a host comment is on: its original_line when its line is null.
HostLine(e) == IF e.line.none THEN e.original_line ELSE e.line

\* C2: over the process_file calls that share one queued set, no two
\* Comments have the same (path, line, stripped text), and no Comment has a
\* text that a host comment on its path and line contains.
C2_AtMostOneCommentPerTriple ==
    /\ \A j, k \in 1..Len(loc.all_comments) :
         j # k => Triple(loc.all_comments[j]) # Triple(loc.all_comments[k])
    /\ \A k \in 1..Len(loc.all_comments) :
         \A h \in 1..Len(pr.review_comments) :
            LET c == loc.all_comments[k]
                e == pr.review_comments[h]
            IN  ~(/\ e.path = c.path
                  /\ HostLine(e) = Some(c.line)
                  /\ Contains(e.body, strip(TextOf(c))))

\* Two calls, no host comments, a Comment on a.py line 2 and a later finding
\* for the same triple dropped as a duplicate.
C2_Witness ==
    /\ pr.review_comments = <<>>
    /\ loc.i = 2
    /\ <<"duplicate", 2>> \in log
    /\ Len(loc.all_comments) = 1
    /\ loc.all_comments[1].path = FileA.filename

(***************************************************************************)
(* run_review: the verdict, the batches and the scope (Spec).              *)
(***************************************************************************)
Blocking(c) == c.severity \in {"critical", "major"}

\* e is the verdict the comments call for.
VerdictIs(e, comments) ==
    /\ e \in {"APPROVE", "REQUEST_CHANGES", "COMMENT"}
    /\ e = "APPROVE" <=> comments = <<>>
    /\ e = "REQUEST_CHANGES" <=> \E k \in 1..Len(comments) : Blocking(comments[k])

\* The severity a finding counts as.
CountsAs(severity) ==
    IF ~severity.none /\ severity.v \in {"critical", "major", "minor", "nitpick"}
    THEN severity.v
    ELSE "minor"

\* C6: the verdict is APPROVE exactly when there is no Comment,
\* REQUEST_CHANGES exactly when some Comment is critical or major, COMMENT
\* otherwise; and a Comment made of a finding with a missing or unrecognized
\* severity is minor.
C6_Verdict ==
    /\ loc.event # NoLocals.event => VerdictIs(loc.event, loc.all_comments)
    /\ result.kind = "summary" => VerdictIs(result.event, result.comments)
    /\ \A k \in 1..Len(loc.all_comments) :
         \A answer \in ProviderAnswers :
            \A i \in 1..Len(answer) :
               (/\ answer[i].line = Some(loc.all_comments[k].line)
                /\ answer[i].comment = TextOf(loc.all_comments[k]))
               => loc.all_comments[k].severity = CountsAs(answer[i].severity)

\* A run that ended with REQUEST_CHANGES on a critical Comment next to a
\* nitpick and a Comment made minor for its unrecognized severity.
C6_Witness ==
    /\ pc = "done"
    /\ result.kind = "summary"
    /\ result.event = "REQUEST_CHANGES"
    /\ \E k \in 1..Len(result.comments) : result.comments[k].severity = "critical"
    /\ \E k \in 1..Len(result.comments) : result.comments[k].severity = "nitpick"
    /\ \E k \in 1..Len(result.comments) :
         /\ result.comments[k].severity = "minor"
         /\ TextOf(result.comments[k]) = <<"x">>
         /\ result.comments[k].line = 1

IsPrefix(s, t) == Len(s) <= Len(t) /\ SubSeq(t, 1, Len(s)) = s

\* The reviews the pull request had when the run started.
PriorReviews ==
    CHOOSE h \in ReviewHistories :
        /\ IsPrefix(h, pr.reviews)
        /\ \A g \in ReviewHistories : IsPrefix(g, pr.reviews) => Len(g) <= Len(h)

\* The reviews this run has submitted, in order.
Submitted == SubSeq(pr.reviews, Len(PriorReviews) + 1, Len(pr.reviews))

\* ceil(n / b) for b >= 1
CeilDiv(n, b) == CHOOSE k \in 0..n : k * b >= n /\ (k - 1) * b < n

\* The k-th slice of b of the Comments, as submitted.
Slice(k, b) ==
    LET n == Len(loc.all_comments)
        first == (k - 1) * b + 1
        last == IF k * b > n THEN n ELSE k * b
    IN  [j \in 1..(last - first + 1) |->
            [path |-> loc.all_comments[first + j - 1].path,
             position |-> loc.all_comments[first + j - 1].position,
             body |-> loc.all_comments[first + j - 1].body]]

\* C7: with n >= 1 Comments and batch limit b, the k-th review submitted
\* carries the k-th slice of at most b Comments; every review but the last
\* has event COMMENT and the progress body, the last has the verdict and the
\* summary body; a completed run has submitted ceil(n/b) reviews; and what
\* has been submitted has been written to the audit log before, each
\* create_review call following a flush_to_file call.
C7_Batches ==
    (pc \in {"flush", "submit", "done"} /\ Len(loc.all_comments) >= 1 /\ ~args.shadow)
    => LET n == Len(loc.all_comments)
           b == loc.batch_limit
       IN  /\ \A k \in 1..Len(Submitted) :
                /\ Submitted[k].comments = Slice(k, b)
                /\ Len(Submitted[k].comments) \in 1..b
                /\ IF k * b >= n
                   THEN /\ Submitted[k].event = loc.event
                        /\ Submitted[k].body = loc.summary_body
                        /\ k = Len(Submitted)
                   ELSE /\ Submitted[k].event = "COMMENT"
                        /\ Submitted[k].body =
                              <<[k |-> "progress", posted |-> k * b, total |-> n]>>
           /\ (pc = "done" /\ result.kind = "summary") => Len(Submitted) = CeilDiv(n, b)
           /\ IsPrefix(audit_log, loc.all_comments)
           /\ \A k \in 1..Len(Submitted) :
                IsPrefix(Slice(k, b),
                         [j \in 1..(Len(audit_log) - (k - 1) * b) |->
                            [path |-> audit_log[(k - 1) * b + j].path,
                             position |-> audit_log[(k - 1) * b + j].position,
                             body |-> audit_log[(k - 1) * b + j].body]])
           /\ \A i \in 1..Len(calls) :
                calls[i] = "create_review" => i > 1 /\ calls[i - 1] = "flush_to_file"

\* A completed run with three Comments and batch limit two: two reviews, the
\* second with one Comment.
C7_Witness ==
    /\ pc = "done"
    /\ result.kind = "summary"
    /\ ~args.shadow
    /\ Len(loc.all_comments) = 3
    /\ loc.batch_limit = 2
    /\ Len(Submitted) = 2
    /\ Len(Submitted[2].comments) = 1
    /\ Submitted[1].event = "COMMENT"
    /\ Submitted[2].event = "REQUEST_CHANGES"

\* The calls that fetch a diff or a file, call the model or submit a review.
WorkCalls ==
    {"get_files", "compare", "get_contents", "gather_context", "review",
     "flush_to_file", "create_review"}

NoWork(cs) == \A i \in 1..Len(cs) : cs[i] \notin WorkCalls

\* The step is run_review's exit without a summary and without work.
EarlyExit ==
    /\ pc' = "done"
    /\ result' = ReturnedNone
    /\ NoWork(calls')
    /\ pr' = pr
    /\ audit_log' = audit_log

C8_Step ==
    /\ pc # "done"
    /\ (/\ pc = "start"
        /\ pr.draft /\ ~args.review_draft_prs
        /\ result' # Raised("ValueError"))
       => EarlyExit
    /\ (/\ pc = "scope"
        /\ ~args.force_full
        /\ get_last_reviewed_sha(pr.reviews) = SomeStr(loc.head_sha))
       => EarlyExit

\* C8: run_review, once it has the pull request, exits with no summary, no
\* diff or file fetched, no model call and no review submitted when the pull
\* request is a draft and review_draft_prs is off, and when force_full is off
\* and the last reviewed commit is the head commit; nothing happens after
\* the exit.
C8_EarlyExits == [][C8_Step]_vars

\* The exit of a draft whose review is enabled and whose head commit has
\* been reviewed.
C8_Witness ==
    /\ pc = "done"
    /\ result = ReturnedNone
    /\ pr.draft
    /\ args.review_draft_prs
    /\ calls = <<"get_pull", "get_reviews">>

FileNames(files) == {files[k].filename : k \in 1..Len(files)}

\* The comparison of the last reviewed commit with head was asked for and
\* raised: the full diff was fetched after it.
FellBack ==
    \E i \in 1..(Len(calls) - 1) : calls[i] = "compare" /\ calls[i + 1] = "get_files"

\* The comparison succeeded.
Compared == ~FellBack /\ \E i \in 1..Len(calls) : calls[i] = "compare"

SummaryBuilt == loc.summary_body # NoLocals.summary_body

\* The loop over the files has ended: the verdict has been computed.
LoopDone == loc.event # NoLocals.event

C9_Step ==
    (/\ pc = "scope"
     /\ ~args.force_full
     /\ ~get_last_reviewed_sha(pr.reviews).none
     /\ get_last_reviewed_sha(pr.reviews).v # loc.head_sha)
    => /\ pc' = "setup"
       /\ result' = Running
       /\ \/ /\ calls' = calls \o <<"get_reviews", "compare">>
             /\ FileNames(loc'.diff_files) = FileNames(IncrementalDiff)
             /\ loc'.incremental_info =
                   [none |-> FALSE,
                    base_sha |-> get_last_reviewed_sha(pr.reviews).v,
                    head_sha |-> loc.head_sha]
          \/ /\ calls' = calls \o <<"get_reviews", "compare", "get_files">>
             /\ FileNames(loc'.diff_files) = FileNames(FullDiff)
             /\ loc'.incremental_info = NoInfo

C9_State ==
    /\ Compared =>
         /\ FileNames(loc.file_summary) \subseteq FileNames(IncrementalDiff)
         /\ LoopDone =>
               FileNames(loc.file_summary) = FileNames(IncrementalDiff)
         /\ SummaryBuilt =>
               loc.summary_body[1].incremental =
                   [shown |-> TRUE,
                    base |-> SubSeq(OldSha, 1, 7),
                    head |-> SubSeq(HeadSha, 1, 7)]
    /\ FellBack =>
         /\ loc.incremental_info = NoInfo
         /\ FileNames(loc.file_summary) \subseteq FileNames(FullDiff)
         /\ LoopDone =>
               FileNames(loc.file_summary) = FileNames(FullDiff)
         /\ SummaryBuilt => ~loc.summary_body[1].incremental.shown

\* C9: with a last reviewed commit other than head, run_review goes on with
\* the files of the comparison and the incremental metadata, which the
\* summary body shows, or, when the comparison raises, with the full diff
\* and no incremental metadata; in both cases it goes on to review.
C9_IncrementalOrFallback == [](C9_State) /\ [][C9_Step]_vars

\* A run that fell back, completed and submitted its review, the summary
\* showing no incremental line.
C9_Witness ==
    /\ FellBack
    /\ pc = "done"
    /\ result.kind = "summary"
    /\ result.reviewed_files # <<>>
    /\ Len(Submitted) >= 1
    /\ Submitted[Len(Submitted)].body = loc.summary_body
    /\ ~loc.summary_body[1].incremental.shown

\* C10: under force_full run_review never asks for the reviews nor for a
\* comparison; once past the draft test it fetches the full diff and reviews
\* its files, and it returns no summary only for a draft or on the user's
\* refusal.
C10_ForceFull ==
    args.force_full =>
        /\ \A i \in 1..Len(calls) : calls[i] \notin {"get_reviews", "compare"}
        /\ loc.last_sha = NoLocals.last_sha
        /\ loc.incremental_info = NoInfo
        /\ Len(calls) >= 2 =>
              /\ calls[2] = "get_files"
              /\ FileNames(loc.diff_files) = FileNames(FullDiff)
        /\ LoopDone =>
              FileNames(loc.file_summary) = FileNames(FullDiff)
        /\ (pc = "done" /\ result = ReturnedNone) =>
              \/ pr.draft /\ ~args.review_draft_prs
              \/ calls[Len(calls)] = "input"

\* A force_full run on a pull request whose head commit has been reviewed,
\* completed with a review submitted.
C10_Witness ==
    /\ args.force_full
    /\ Len(PriorReviews) = 2
    /\ MarkerSearch(PriorReviews[2]) = SomeStr(loc.head_sha)
    /\ pc = "done"
    /\ result.kind = "summary"
    /\ Len(Submitted) >= 1

(***************************************************************************)
(* run_review: confirmation and shadow mode (Spec).                        *)
(***************************************************************************)
\* The run has submitted or logged something.
HasPosted ==
    \/ \E i \in 1..Len(calls) : calls[i] \in {"create_review", "flush_to_file"}
    \/ audit_log # <<>>
    \/ Submitted # <<>>

\* Normalised as the prompt's answer is, by a table of its own.
SaysYes(answer) == answer \in {<<"y">>, <<" ", "Y", " ">>}

C12_ShadowPostsNothing ==
    args.shadow =>
        /\ \A i \in 1..Len(calls) :
              calls[i] \notin {"input", "create_review", "flush_to_file"}
        /\ audit_log = <<>>
        /\ pr.reviews \in ReviewHistories
        /\ LoopDone =>
              /\ pc = "done"
              /\ result.kind = "summary"
              /\ VerdictIs(result.event, loc.all_comments)
              /\ result.comments = loc.all_comments
              /\ result.total_comments = Len(loc.all_comments)

\* A shadow run that ended with Comments calling for changes.
C12_Witness ==
    /\ args.shadow
    /\ pc = "done"
    /\ result.kind = "summary"
    /\ result.event = "REQUEST_CHANGES"
    /\ result.total_comments >= 2

(***************************************************************************)
(* run_review: a file whose content cannot be fetched (Spec).              *)
(***************************************************************************)
\* The files recorded with an error, in order.
Errored ==
    LET HasError(f) == ~f.error.none
        e == SelectSeq(loc.file_summary, HasError)
    IN  [k \in 1..Len(e) |-> e[k].filename]

\* The step recorded a file with an error.
RecordsError ==
    /\ Len(loc'.file_summary) = Len(loc.file_summary) + 1
    /\ ~loc'.file_summary[Len(loc'.file_summary)].error.none

C14_Step ==
    RecordsError =>
        /\ loc'.file_summary[Len(loc'.file_summary)].filename =
               loc.diff_files[loc.i].filename
        /\ loc'.file_summary[Len(loc'.file_summary)].count = 0
        /\ calls' = calls \o <<"get_contents">>
        /\ loc'.all_comments = loc.all_comments
        /\ loc'.queued = loc.queued
        /\ loc'.i = loc.i + 1
        /\ pc' = "loop"
        /\ result' = Running

C14_State ==
    /\ \A k \in 1..Len(Errored) :
          /\ \A c \in 1..Len(loc.all_comments) :
                loc.all_comments[c].path # Errored[k]
          /\ \A c \in 1..Len(audit_log) : audit_log[c].path # Errored[k]
    /\ (pc = "done" /\ result.kind = "summary") =>
          /\ Len(loc.file_summary) = Len(loc.diff_files)
          /\ \A k \in 1..Len(Errored) :
                \A c \in 1..Len(result.reviewed_files) :
                    result.reviewed_files[c] # Errored[k]
          /\ ~args.shadow =>
                /\ Submitted # <<>>
                /\ LET last == Submitted[Len(Submitted)]
                   IN  /\ last.body[1].k = "summary"
                       /\ last.body[1].errors = Errored

\* C14: when the content fetch of a file fails, the file is recorded with
\* the error, the model is not called and no Comment is made for it, and
\* the loop goes on with the next file; the run that then ends with a
\* summary has gone through every file and has submitted a review whose
\* body lists the files that could not be fetched.
C14_FetchErrorIsRecorded == [](C14_State) /\ [][C14_Step]_vars

\* The first file could not be fetched, a later one got Comments, and the
\* review was submitted.
C14_Witness ==
    /\ pc = "done"
    /\ result.kind = "summary"
    /\ ~args.shadow
    /\ Len(Errored) >= 1
    /\ ~loc.file_summary[1].error.none
    /\ Len(loc.all_comments) >= 1
    /\ Submitted # <<>>

(***************************************************************************)
(* run_review: failures of the context fetches (Spec).                     *)
(***************************************************************************)
\* The step is the loop's turn for a file whose content was fetched.
ReviewsAFile ==
    /\ pc = "loop"
    /\ calls' # calls
    /\ ~RecordsError

\* The file of the step goes to the model: it has a patch and was added or
\* modified.
HasPatch(file) == file.patch # <<>> /\ file.status \in {"modified", "added"}

C15_Step ==
    ReviewsAFile =>
        /\ pc' = "loop"
        /\ result' = Running
        /\ loc'.i = loc.i + 1
        /\ Len(loc'.file_summary) = Len(loc.file_summary) + 1
        /\ HasPatch(loc.diff_files[loc.i]) => calls'[Len(calls')] = "review"
        /\ ~loc.repo_tree => loc'.repo_context.none

\* C15: whatever fetch of the context fails for a file whose content was
\* fetched (the tree, the commit history, a related file's content), the
\* step for the file ends in the loop with the file recorded and, when it
\* has a patch, sent to the model; run_review does not raise.
C15_ContextFailureNeverAborts == [][C15_Step]_vars

(***************************************************************************)
(* The provider gateway: retries of one review call (SpecRetry).           *)
(***************************************************************************)
\* The attempts made so far, and the waits.
Attempts == SelectSeq(gateway.events, LAMBDA e : e.e = "call")

Waits == SelectSeq(gateway.events, LAMBDA e : e.e = "sleep")

\* The first attempt of the script that does not raise, 0 if all raise.
FirstSuccess ==
    IF \E k \in 1..MAX_RETRIES : ~gateway.script[k].raises
    THEN CHOOSE k \in 1..MAX_RETRIES :
            /\ ~gateway.script[k].raises
            /\ \A j \in 1..(k - 1) : gateway.script[j].raises
    ELSE 0

\* The findings a raw text stands for.
FindingsIn(raw) ==
    CASE \E i \in 1..Len(raw) : raw[i] = "[f1]" -> <<"f1">>
      [] \E i \in 1..Len(raw) : raw[i] = "[f1, f2]" -> <<"f1", "f2">>
      [] OTHER -> <<>>

\* C13: one review call makes at most 3 attempts, none after the first
\* that succeeds, whose result it returns; it waits 2^k seconds after the
\* failed attempt k (from 0) when another attempt follows, and only then;
\* when all 3 attempts fail it returns no findings and does not raise.
C13_BoundedRetry ==
    /\ Len(Attempts) <= 3
    /\ \A k \in 1..Len(Attempts) :
          k < Len(Attempts) => gateway.script[k].raises
    /\ \A k \in 1..Len(Waits) : Waits[k].delay = 2^(k - 1)
    /\ \A i \in 1..Len(gateway.events) :
          gateway.events[i].e = "sleep" =>
              /\ i > 1 /\ gateway.events[i - 1].e = "call"
              /\ gateway.pc = "returned" =>
                    i < Len(gateway.events) /\ gateway.events[i + 1].e = "call"
    /\ gateway.pc = "attempt" => Len(Waits) = Len(Attempts)
    /\ gateway.pc = "returned" =>
          /\ Len(Waits) = Len(Attempts) - 1
          /\ IF FirstSuccess = 0
             THEN Len(Attempts) = 3 /\ gateway.findings = PyList(<<>>)
             ELSE /\ Len(Attempts) = FirstSuccess
                  /\ gateway.findings =
                        PyList(FindingsIn(gateway.script[FirstSuccess].raw))

\* All three attempts failed: the call returned nothing after waiting 1 and
\* 2 seconds.
C13_Witness ==
    /\ gateway.pc = "returned"
    /\ FirstSuccess = 0
    /\ Len(Attempts) = 3
    /\ Waits = <<Sleep(1), Sleep(2)>>
    /\ gateway.findings = PyList(<<>>)

(***************************************************************************)
(* The review command and the store (SpecCmd).                             *)
(***************************************************************************)
NumberOf(call) == Cardinality({i \in 1..Len(calls) : calls[i] = call})

C16_Step ==
    /\ cmd'.save_calls # cmd.save_calls =>
          /\ cmd.save_calls = 0
          /\ cmd'.save_calls = 1
          /\ pc = "done"
          /\ result.kind = "summary"
    /\ cmd.save_calls >= 1 => calls' = calls /\ pr' = pr

\* C16: the command calls save at most once, when run_review has returned
\* a summary and with it made every review submission of the run (nothing
\* is submitted or called afterwards), and never when run_review returned
\* no summary.
C16_SaveOnceAfterTheRun ==
    /\ [](/\ cmd.save_calls <= 1
          /\ cmd.save_calls = 1 => pc = "exit" /\ result.kind = "summary"
          /\ result.kind = "None" => cmd.save_calls = 0)
    /\ [][C16_Step]_vars

\* The record was saved after a run that submitted its Comments in two
\* reviews.
C16_Witness ==
    /\ pc = "exit"
    /\ cmd.save_calls = 1
    /\ Len(cmd.history) = 1
    /\ NumberOf("create_review") = 2
    /\ cmd.history[1].total_comments = 2

\* C17: with every store, when run_review has submitted its review and
\* returned the summary, the command ends without an error, whether the
\* save failed or not.
C17_SaveFailureNotPropagated ==
    (/\ pc = "exit"
     /\ result.kind = "summary"
     /\ NumberOf("create_review") >= 1) => cmd.exit = "ok"

\* The configuration names an unknown provider or lacks the credential of
\* the provider it names.
ConfigurationError ==
    \/ args.model \notin {"anthropic", "openai"}
    \/ ~cmd.api_key

\* C18: with a configuration error in it, the command makes no call to
\* the host or to the model, and ends with an error.
C18_ConfigurationErrorFirst ==
    (ConfigurationError /\ cmd.token) =>
        /\ calls = <<>>
        /\ pc = "exit" => cmd.exit \in {"UsageError", "ValueError"}

(***************************************************************************)
(* build_context_section: the budget (SpecContext).                        *)
(***************************************************************************)
\* The sections the returned text has content of.
Included ==
    {context.returned[i].of : i \in 1..Len(context.returned)} \ {"literal"}

\* The characters of a section's content in the returned text, and in the
\* RepoContext.
RECURSIVE SumContent(_)
SumContent(files) ==
    IF files = <<>> THEN 0 ELSE Head(files).content + SumContent(Tail(files))

ReturnedOf(of) ==
    Length(SelectSeq(context.returned, LAMBDA piece : piece.of = of))

GivenOf(of) ==
    LET rc == context.repo_context
    IN  CASE of = "repo_map" -> rc.repo_map
          [] of = "cochanged" -> SumContent(rc.cochanged_files)
          [] of = "sibling" -> SumContent(rc.sibling_files)
          [] of = "test" -> rc.test_file_content.n

SectionOf(name) ==
    LET rc == context.repo_context
    IN  CASE name = "repo_map" -> repo_map_section(rc)
          [] name = "cochanged" -> cochanged_section(rc)
          [] name = "sibling" -> sibling_section(rc)
          [] name = "test" -> test_section(rc)

\* The sections a RepoContext has.
Present ==
    {name \in {"repo_map", "cochanged", "sibling", "test"} : SectionOf(name) # <<>>}

SectionSets ==
    << {"repo_map", "cochanged", "sibling", "test"},
       {"repo_map", "cochanged", "test"},
       {"repo_map", "test"},
       {"test"} >>

RECURSIVE SumOfSections(_)
SumOfSections(names) ==
    IF names = {} THEN 0
    ELSE LET name == CHOOSE x \in names : TRUE
         IN  Length(SectionOf(name)) + SumOfSections(names \ {name})

\* The length of the present sections of a set, joined by blank lines.
JoinedLength(set) ==
    LET here == set \cap Present
    IN  IF here = {} THEN 0
        ELSE SumOfSections(here) + 2 * (Cardinality(here) - 1)

Fits(set) == JoinedLength(set) <= _MAX_CONTEXT_CHARS

\* The first set that fits is returned, its sections whole; nothing is
\* returned when none fits.
FirstFit ==
    (context.pc = "returned" /\ ~context.repo_context.none) =>
        /\ \A of \in Included : ReturnedOf(of) = GivenOf(of)
        /\ IF \E k \in 1..4 : Fits(SectionSets[k])
           THEN LET k == CHOOSE j \in 1..4 :
                            /\ Fits(SectionSets[j])
                            /\ \A i \in 1..(j - 1) : ~Fits(SectionSets[i])
                IN  Included = SectionSets[k] \cap Present
           ELSE context.returned = <<>>

\* The siblings' section is over the ceiling by itself.
SiblingsAloneExceed ==
    Length(sibling_section(context.repo_context)) > _MAX_CONTEXT_CHARS

C20_WithinCeiling ==
    context.pc = "returned" => Length(context.returned) <= 20000

(***************************************************************************)
(* run_review: the order of the files and the skipped files (Spec).        *)
(***************************************************************************)
\* The path lies under the directory the pattern names, at any depth.
UnderDirectory(path, pattern) ==
    LET dir == RStripSlash(pattern) \o <<"/">>
    IN  \E k \in 0..Len(path) :
           /\ k + Len(dir) <= Len(path)
           /\ SubSeq(path, k + 1, k + Len(dir)) = dir
           /\ k = 0 \/ path[k] = "/"

\* The file is left out of the review: an exclusion pattern matches its
\* path or it has a non-text extension.
LeftOut(path) ==
    \/ \E k \in 1..Len(ExcludePatterns) :
          \/ fnmatch(path, ExcludePatterns[k])
          \/ fnmatch(Basename(path), ExcludePatterns[k])
          \/ UnderDirectory(path, ExcludePatterns[k])
    \/ \E ext \in NON_CODE_EXTENSIONS : EndsWith(lower(path), ext)

\* The file the loop is about to take.
AtFile == pc = "loop" /\ loc.i <= Len(loc.diff_files)

C21_Ordered ==
    /\ \A j, k \in 1..Len(loc.diff_files) :
          j < k => ~StrLess(loc.diff_files[k].filename, loc.diff_files[j].filename)
    /\ Len(loc.file_summary) <= Len(loc.diff_files)
    /\ \A k \in 1..Len(loc.file_summary) :
          loc.file_summary[k].filename = loc.diff_files[k].filename
    /\ AtFile => loc.i = Len(loc.file_summary) + 1

C21_Step ==
    (AtFile /\ LeftOut(loc.diff_files[loc.i].filename)) =>
        /\ calls' = calls
        /\ loc'.file_summary =
               Append(loc.file_summary,
                      [filename |-> loc.diff_files[loc.i].filename, count |-> 0,
                       skipped |-> TRUE, error |-> NoneStr])
        /\ loc'.all_comments = loc.all_comments
        /\ loc'.i = loc.i + 1
        /\ pc' = "loop"

EndOfLoop == (pc = "loop" /\ loc.i > Len(loc.diff_files)) \/ LoopDone

\* The three classes of a record.
IsSkippedRecord(f) == f.skipped
IsErroredRecord(f) == ~f.error.none
IsReviewedRecord(f) == ~f.skipped /\ f.error.none

ClassesOf(f) ==
    (IF IsSkippedRecord(f) THEN {"skipped"} ELSE {})
        \cup (IF IsErroredRecord(f) THEN {"errored"} ELSE {})
        \cup (IF IsReviewedRecord(f) THEN {"reviewed"} ELSE {})

RecordsOf(filename) ==
    {k \in 1..Len(loc.file_summary) : loc.file_summary[k].filename = filename}

RECURSIVE SumOfCounts(_)
SumOfCounts(records) ==
    IF records = <<>> THEN 0 ELSE Head(records).count + SumOfCounts(Tail(records))

Range(s) == {s[k] : k \in 1..Len(s)}

C28_Records ==
    EndOfLoop =>
        /\ \A k \in 1..Len(loc.diff_files) :
              Cardinality(RecordsOf(loc.diff_files[k].filename)) = 1
        /\ \A k \in 1..Len(loc.file_summary) :
              /\ Cardinality(ClassesOf(loc.file_summary[k])) = 1
              /\ loc.file_summary[k].filename \in FileNames(loc.diff_files)
        /\ SumOfCounts(loc.file_summary) = Len(loc.all_comments)

C28_Summary ==
    (pc = "done" /\ result.kind = "summary") =>
        /\ Range(result.reviewed_files) \cap Range(result.skipped_files) = {}
        /\ Range(Errored) \cap Range(result.reviewed_files) = {}
        /\ Range(Errored) \cap Range(result.skipped_files) = {}
        /\ Range(result.reviewed_files) \cup Range(result.skipped_files)
               \cup Range(Errored) = FileNames(loc.diff_files)
        /\ result.total_comments = Len(result.comments)
        /\ result.total_comments = SumOfCounts(loc.file_summary)

\* C28: when the loop over the files has ended every changed file has
\* exactly one record and every record is exactly one of skipped, errored
\* and reviewed; in the returned summary the reviewed and the skipped
\* paths are disjoint, neither holds an errored file, and total_comments
\* is the number of Comments of the summary and the sum of the per-file
\* counts.
C28_RecordsAndSummary == C28_Records /\ C28_Summary

\* A returned summary over a skipped, an errored and a reviewed file with
\* Comments.
C28_Witness ==
    /\ pc = "done"
    /\ result.kind = "summary"
    /\ Errored # <<>>
    /\ result.skipped_files # <<>>
    /\ result.reviewed_files # <<>>
    /\ result.total_comments >= 2

(***************************************************************************)
(* SpecRerun: run_review called a second time on the same pull request at  *)
(* the same head commit, after a run that posted a review or that failed   *)
(* in a submission call after posting at least one batch.  The pull        *)
(* request keeps the reviews of the first run, and the host lists the      *)
(* comments of the posted batches among the review comments.  The second   *)
(* run is made without the full-review override, in a new process: its     *)
(* locals and its log start empty, the audit log file is kept.             *)
(***************************************************************************)
\* pr.get_review_comments() for a posted Comment: the host reports the
\* path, the body and the line the position stands for.
AsHostComment(c) == HostComment(c.path, Some(c.line), Some(c.line), c.body)

\* The Comments of the batches whose create_review returned.
PostedComments == SubSeq(loc.all_comments, 1, loc.total_posted)

\* The first run has returned a summary after posting, or create_review
\* raised after at least one batch had been posted.
Posted ==
    /\ pc = "done"
    /\ \/ result.kind = "summary" /\ ~args.shadow
       \/ result = Raised("GithubException") /\ loc.total_posted >= 1

\* The first run is on a pull request that is not a draft and has no review
\* comments yet; the user is asked to confirm in the runs of a first review.
InitRerun ==
    /\ Init
    /\ ~pr.draft
    /\ ~args.review_draft_prs
    /\ pr.review_comments = <<>>
    /\ (~args.auto_confirm /\ ~args.shadow) => (pr.reviews = <<>> /\ ~args.force_full)

Rerun ==
    /\ Posted
    /\ Cardinality({i \in 1..Len(calls) : calls[i] = "get_pull"}) = 1
    /\ pr' = [pr EXCEPT !.review_comments =
                @ \o [k \in 1..Len(PostedComments) |-> AsHostComment(PostedComments[k])]]
    /\ args' = [args EXCEPT !.force_full = FALSE]
    /\ pc' = "start"
    /\ loc' = NoLocals
    /\ result' = Running
    /\ log' = {}
    /\ UNCHANGED <<audit_log, calls>>
    /\ UNCHANGED <<patchVars, frame, sideVars>>

NextRerun == Next \/ Rerun

SpecRerun == InitRerun /\ [][NextRerun]_vars

(***************************************************************************)
(* run_review: the marker of a completed run and the run after it          *)
(* (SpecRerun).                                                            *)
(***************************************************************************)
\* The run in progress is the second one.
SecondRun == NumberOf("get_pull") = 2

\* The body of the review carries the marker for the commit.
CarriesMarker(review, sha) ==
    /\ ~review.body_is_none
    /\ \E k \in 1..Len(review.body) : review.body[k] = MarkerPart(sha)

\* The last review of the pull request carries the marker for the head.
LastCarriesHead ==
    /\ pr.reviews # <<>>
    /\ CarriesMarker(pr.reviews[Len(pr.reviews)], HeadSha)

\* The run has completed: it returned a summary outside shadow mode.
Completed == pc = "done" /\ result.kind = "summary" /\ ~args.shadow

C26_State ==
    Completed =>
        /\ LastCarriesHead
        /\ get_last_reviewed_sha(pr.reviews) = SomeStr(HeadSha)

C26_Step ==
    (SecondRun /\ pc # "done" /\ LastCarriesHead /\ ~args.force_full) =>
        /\ pr' = pr
        /\ audit_log' = audit_log
        /\ NoWork(SubSeq(calls', Len(calls) + 1, Len(calls')))
        /\ pc' \in {"scope", "done"}
        /\ pc' = "done" => result'.kind # "summary"

\* C26: a confirmed run outside shadow mode that returns its summary has
\* posted, as the last review of the pull request, a review whose body
\* carries the marker for the head commit (whether or not it had Comments,
\* fetch errors or empty provider answers); a run that follows it at the
\* same head without the full-review override does no work, posts nothing
\* and returns no summary.
C26_IdempotentPerHead == [](C26_State) /\ [][C26_Step]_vars

\* The second run returned None after a first run that posted its Comments
\* in two batches or more and had a file whose content could not be
\* fetched.
C26_Witness ==
    /\ SecondRun
    /\ pc = "done"
    /\ result = ReturnedNone
    /\ LastCarriesHead
    /\ NumberOf("create_review") >= 2
    /\ pr.reviews[Len(pr.reviews)].body[1].errors # <<>>
    /\ pr.reviews[Len(pr.reviews)].comments # <<>>

(***************************************************************************)
(* run_review: a submission call that fails after posted batches, and the  *)
(* run after it (SpecRerun).                                               *)
(***************************************************************************)
\* create_review raised after at least one batch of the run was posted.
FailedAfterPosting ==
    /\ pc = "done"
    /\ result = Raised("GithubException")
    /\ LoopDone
    /\ loc.total_posted >= 1

\* The second run is at its scope decision and the last review of the pull
\* request is a progress review: the first run failed after posting.
AfterFailedRun ==
    /\ SecondRun
    /\ pc = "scope"
    /\ pr.reviews # <<>>
    /\ pr.reviews[Len(pr.reviews)].body[1].k = "progress"

\* The step is the exit "No new commits since the last review".
NothingChangedExit == pc = "scope" /\ pc' = "done" /\ result' = ReturnedNone

\* A review that was there before the first run carries the marker for the
\* head commit: the head had been reviewed, and the first run was a forced
\* full review.
HeadReviewedBefore ==
    \E k \in 1..Len(PriorReviews) : CarriesMarker(PriorReviews[k], HeadSha)

\* The Comment is one the host already lists: same path, line and body.
AlreadyListed(c) ==
    \E k \in 1..Len(pr.review_comments) :
        LET e == pr.review_comments[k]
        IN  /\ e.path = c.path
            /\ CommentLine(e) = Some(c.line)
            /\ e.body = c.body

\* No review of the failed run carries the marker for the head.
C25_NoMarkerPosted ==
    FailedAfterPosting =>
        \A k \in 1..Len(Submitted) : ~CarriesMarker(Submitted[k], HeadSha)

\* The second run builds, and so posts, no Comment the host lists.
C25_NothingPostedAgain ==
    SecondRun =>
        \A k \in 1..Len(loc.all_comments) : ~AlreadyListed(loc.all_comments[k])

\* C25 as stated: a run that failed in a submission call with batches
\* posted has posted no review with the marker for the head, a later run on
\* the same head never exits with "nothing changed", and it posts no
\* Comment the host already lists.
C25_AsStated ==
    /\ [](C25_NoMarkerPosted)
    /\ [][AfterFailedRun => ~NothingChangedExit]_vars
    /\ [](C25_NothingPostedAgain)

\* C25: a run that fails in a submission call after k >= 1 posted batches
\* has itself posted no review with the marker for the head commit, so a
\* later run on the same head does not exit with "nothing changed" unless a
\* review from before the failed run carried that marker; and the later
\* run posts no Comment (path, line, body) that the host already lists.
C25_PartialFailureTolerated ==
    /\ [](C25_NoMarkerPosted)
    /\ [][(AfterFailedRun /\ ~HeadReviewedBefore) => ~NothingChangedExit]_vars
    /\ [](C25_NothingPostedAgain)

\* The second run, after a failed one, dropped a finding as a duplicate of
\* a posted Comment and returned its summary with other Comments posted.
C25_Witness ==
    /\ SecondRun
    /\ pc = "done"
    /\ result.kind = "summary"
    /\ pr.review_comments # <<>>
    /\ ~HeadReviewedBefore
    /\ \E entry \in log : entry[1] = "duplicate"
    /\ result.total_comments >= 1

(***************************************************************************)
(* SpecHistory: get_last_reviewed_sha over review histories of up to       *)
(* MaxReviews reviews, in the order pr.get_reviews() lists them (oldest    *)
(* first).                                                                 *)
(***************************************************************************)
MaxReviews == 3

\* A review as pr.get_reviews() lists it, with the body given.
ReviewWith(body) ==
    [body_is_none |-> FALSE, body |-> body, event |-> "COMMENT", comments |-> <<>>]

\* Bodies: none, text without a marker, a progress body, a summary with the
\* marker of OldSha or of HeadSha, a body quoting two markers, and a tag
\* whose commit id is not 40 lower-case hex digits.
SampleReviews ==
    { [body_is_none |-> TRUE, body |-> <<>>, event |-> "COMMENT", comments |-> <<>>],
      ReviewWith(<<[k |-> "text"]>>),
      ReviewWith(<<[k |-> "progress", posted |-> 1, total |-> 2]>>),
      PastReview(OldSha),
      PastReview(HeadSha),
      ReviewWith(<<MarkerPart(HeadSha), [k |-> "text"], MarkerPart(OldSha)>>),
      ReviewWith(<<[k |-> "text"], MarkerPart([i \in 1..ShaLen |-> "A"]),
                   MarkerPart(SubSeq(OldSha, 1, ShaLen - 1))>>) }

RECURSIVE HistoriesUpTo(_)
HistoriesUpTo(n) ==
    IF n = 0
    THEN {<<>>}
    ELSE LET shorter == HistoriesUpTo(n - 1)
         IN  shorter \cup {Append(h, r) : h \in shorter, r \in SampleReviews}

InitHistory ==
    /\ patch_text = <<>>
    /\ scan = ScanInit
    /\ lookup = NoLookup
    /\ \E h \in HistoriesUpTo(MaxReviews) :
          pr = [draft |-> FALSE, reviews |-> h, review_comments |-> <<>>]
    /\ args = [review_draft_prs |-> FALSE, force_full |-> FALSE, shadow |-> FALSE,
               auto_confirm |-> FALSE, batch_limit |-> 1, model |-> "anthropic"]
    /\ pc = "history"
    /\ loc = NoLocals
    /\ audit_log = <<>>
    /\ log = {}
    /\ frame = NoFrame
    /\ calls = <<>>
    /\ result = Running
    /\ gateway = NoGateway
    /\ cmd = NoCmd
    /\ context = NoRendering

\* Line 390: last_sha = get_last_reviewed_sha(this_pr)
LastReviewedSha ==
    /\ pc = "history"
    /\ loc' = [loc EXCEPT !.last_sha = get_last_reviewed_sha(pr.reviews)]
    /\ calls' = calls \o <<"get_reviews">>
    /\ pc' = "done"
    /\ UNCHANGED <<pr, args, audit_log, log, result>>
    /\ UNCHANGED <<patchVars, frame, sideVars>>

NextHistory == LastReviewedSha

SpecHistory == InitHistory /\ [][NextHistory]_vars

(***************************************************************************)
(* get_last_reviewed_sha (SpecHistory).                                    *)
(***************************************************************************)
\* The text of the part is a marker: the tag with 40 lower-case hex digits.
IsMarkerText(part) ==
    /\ part.k = "marker"
    /\ Len(part.sha) = 40
    /\ \A i \in 1..40 :
          part.sha[i] \in {"0", "1", "2", "3", "4", "5", "6", "7", "8", "9",
                           "a", "b", "c", "d", "e", "f"}

\* The places of the markers in the body of the review; none for a null body.
MarkersOf(review) ==
    IF review.body_is_none
    THEN {}
    ELSE {i \in 1..Len(review.body) : IsMarkerText(review.body[i])}

\* The reviews whose body contains a marker.
WithMarker(reviews) == {k \in 1..Len(reviews) : MarkersOf(reviews[k]) # {}}

Newest(ks) == CHOOSE k \in ks : \A j \in ks : j <= k

Oldest(ks) == CHOOSE k \in ks : \A j \in ks : k <= j

\* C22: get_last_reviewed_sha returns the commit id of the (first) marker
\* in the most recently created review whose body contains a marker,
\* whatever reviews with a null body, without a marker or with a progress
\* body stand before, between or after; and None when no body contains a
\* marker.
C22_LastMarkerWins ==
    pc = "done" =>
        IF WithMarker(pr.reviews) = {}
        THEN loc.last_sha = NoneStr
        ELSE LET review == pr.reviews[Newest(WithMarker(pr.reviews))]
             IN  loc.last_sha = SomeStr(review.body[Oldest(MarkersOf(review))].sha)

\* The marker of OldSha was found in the first of three reviews: a review
\* with a null body and a progress review came after it.
C22_Witness ==
    /\ pc = "done"
    /\ Len(pr.reviews) = 3
    /\ loc.last_sha = SomeStr(OldSha)
    /\ pr.reviews[2].body_is_none
    /\ ~pr.reviews[3].body_is_none
    /\ pr.reviews[3].body[1].k = "progress"

(***************************************************************************)
(* get_diff_positions and get_patch_line_content on one patch (SpecPatch). *)
(***************************************************************************)
\* The line of the patch at the diff position: the p-th line that is not a
\* hunk header; 0 if there is none.
LineAtPosition(p) ==
    IF \E i \in 1..Len(Lines) : ~IsHeader(Lines[i]) /\ ContentCount(Lines, i) = p
    THEN CHOOSE i \in 1..Len(Lines) : ~IsHeader(Lines[i]) /\ ContentCount(Lines, i) = p
    ELSE 0

\* The lines of the patch that carry the new-file line number n: lines of a
\* hunk with a parsed header, removed lines apart.
NumberedLines(n) ==
    {i \in 1..Len(Lines) :
        /\ InValidHunk(Lines, i)
        /\ ~IsRemovedLine(Lines[i])
        /\ NewFileLine(Lines, i, IsRemovedLine) = n}

\* The positions are computed and the content of a key was looked up.
LookedUpKey ==
    /\ scan.idx = Len(Lines)
    /\ lookup.target # 0
    /\ lookup.target \in DOMAIN scan.positions

\* The lookup returned the line at the position stored for the key, without
\* its leading "+".
Agree ==
    LET i == LineAtPosition(scan.positions[lookup.target])
    IN  /\ i # 0
        /\ lookup.at = i
        /\ Lines[i][1] = "+"
        /\ lookup.text = Tail(Lines[i])

\* C27 as stated: for every patch text and every key, the lookup returns
\* the text of the line at the stored position.
C27_AsStated == LookedUpKey => Agree

\* C27: for every patch text and every key n of the position map that is
\* the new-file line number of one line of the patch only (as in a unified
\* diff, whose hunks are disjoint and ascending), get_patch_line_content
\* returns the text, without the leading "+", of the line whose diff
\* position is stored for n; when several lines carry the number n the map
\* stores the last added one and the lookup returns the first one.
C27_AgreeOnSingleLines ==
    LookedUpKey =>
        /\ Cardinality(NumberedLines(lookup.target)) = 1 => Agree
        /\ lookup.at = CHOOSE i \in NumberedLines(lookup.target) :
                           \A j \in NumberedLines(lookup.target) : i <= j
        /\ LET last == CHOOSE i \in NumberedLines(lookup.target) :
                           /\ IsAddedLine(Lines[i])
                           /\ \A j \in NumberedLines(lookup.target) :
                                 IsAddedLine(Lines[j]) => j <= i
           IN  LineAtPosition(scan.positions[lookup.target]) = last

\* The key 4 of the second hunk, after a removed line, looked up: the text
\* of the fourth line of the patch, at position 3.
C27_Witness ==
    /\ LookedUpKey
    /\ Cardinality(NumberedLines(lookup.target)) = 1
    /\ lookup.target = 4
    /\ lookup.at = 4
    /\ scan.positions[4] = 3
    /\ lookup.text = <<"a">>

(***************************************************************************)
(* SpecTruncate: the patch of a file cut to config["max_chars_per_file"]   *)
(* characters, with the truncation marker line appended, and the position  *)
(* map process_file computes from the cut patch.  The patches have at most *)
(* MaxCutLines lines and the cap is at most MaxChars characters.           *)
(***************************************************************************)
MaxCutLines == 2

MaxChars == 16

\* Lines 459-461 for a configured cap.
TruncateTo(patch, cap) ==
    IF Len(patch) > cap
    THEN SubSeq(patch, 1, cap) \o TruncatedMarker
    ELSE patch

ShortPatches ==
    { JoinLines(ls) : ls \in UNION { [1..n -> SampleLines] : n \in 0..MaxCutLines } }

InitTruncate ==
    /\ patch_text \in ShortPatches
    /\ scan = ScanInit
    /\ lookup = NoLookup
    /\ pr = [draft |-> FALSE, reviews |-> <<>>, review_comments |-> <<>>]
    /\ \E cap \in 0..MaxChars :
          args = [review_draft_prs |-> FALSE, force_full |-> FALSE, shadow |-> FALSE,
                  auto_confirm |-> FALSE, batch_limit |-> 1, model |-> "anthropic",
                  max_chars |-> cap]
    /\ pc = "truncate"
    /\ loc = NoLocals
    /\ audit_log = <<>>
    /\ log = {}
    /\ frame = NoFrame
    /\ calls = <<>>
    /\ result = Running
    /\ gateway = NoGateway
    /\ cmd = NoCmd
    /\ context = NoRendering

\* Lines 459-461 and 474, then line 281 of process_file: the patch is cut
\* when it is longer than the cap and the positions are computed from it.
TruncatePatch ==
    /\ pc = "truncate"
    /\ LET patch == TruncateTo(patch_text, args.max_chars)
       IN  frame' = [NoFrame EXCEPT !.active = TRUE,
                                    !.patch = patch,
                                    !.diff_positions = get_diff_positions(patch)]
    /\ pc' = "done"
    /\ UNCHANGED <<pr, args, loc, audit_log, log, calls, result>>
    /\ UNCHANGED <<patchVars, sideVars>>

NextTruncate == TruncatePatch

SpecTruncate == InitTruncate /\ [][NextTruncate]_vars

(***************************************************************************)
(* The position map of a truncated patch (SpecTruncate).                   *)
(***************************************************************************)
\* The patch was longer than the cap and was cut.
WasCut == pc = "done" /\ Len(patch_text) > args.max_chars

\* The map of the first argument is part of the map of the second.
SubMap(small, big) ==
    \A n \in DOMAIN small : n \in DOMAIN big /\ big[n] = small[n]

\* C30: every key of the position map of the truncated patch is a key of
\* the position map of the whole patch with the same position, and the
\* marker line adds no key: the map is that of the first cap characters.
C30_TruncationKeepsPositions ==
    WasCut =>
        /\ SubMap(frame.diff_positions, get_diff_positions(patch_text))
        /\ frame.diff_positions =
               get_diff_positions(SubSeq(patch_text, 1, args.max_chars))

(***************************************************************************)
(* SpecTestFile: find_test_file(file_path, tree) as gather_context calls   *)
(* it, for sample paths and every tree made of the sample entries.         *)
(***************************************************************************)
\* Path(p).name
PathName(p) == Basename(p)

\* The place of the dot that starts the suffix of a name, 0 if there is
\* none: the last dot, unless it is the first or the last character.
SuffixDot(name) ==
    LET dots == {i \in 1..Len(name) : name[i] = "."}
        last == IF dots = {} THEN 0 ELSE CHOOSE i \in dots : \A j \in dots : j <= i
    IN  IF last > 1 /\ last < Len(name) THEN last ELSE 0

\* Path(p).stem
PathStem(p) ==
    LET name == PathName(p)
    IN  IF SuffixDot(name) = 0 THEN name ELSE SubSeq(name, 1, SuffixDot(name) - 1)

\* Path(p).suffix
PathSuffix(p) ==
    LET name == PathName(p)
    IN  IF SuffixDot(name) = 0 THEN <<>> ELSE SubSeq(name, SuffixDot(name), Len(name))

\* _TEST_PATTERNS[k - 1].format(stem=stem, suffix=suffix)
TestName(k, stem, suffix) ==
    CASE k = 1 -> <<"t", "e", "s", "t", "_">> \o stem \o suffix
      [] k = 2 -> stem \o <<"_", "t", "e", "s", "t">> \o suffix
      [] k = 3 -> stem \o <<".", "t", "e", "s", "t">> \o suffix
      [] k = 4 -> stem \o <<".", "s", "p", "e", "c">> \o suffix
      [] k = 5 -> stem \o <<"_", "s", "p", "e", "c">> \o suffix
      [] k = 6 -> stem \o <<".", "t", "e", "s", "t">>

\* [p for p in tracked if Path(p).name == name]
TestMatches(tree, name) ==
    {e.path : e \in {f \in tree : f.type = "blob" /\ PathName(f.path) = name}}

\* What find_test_file may return: a match of the first pattern that has
\* one (matches[0] of a list built from a set: any of them), else None.
find_test_file(file_path, tree) ==
    LET stem == PathStem(file_path)
        suffix == PathSuffix(file_path)
        hits == {k \in 1..6 : TestMatches(tree, TestName(k, stem, suffix)) # {}}
    IN  IF hits = {}
        THEN {NoneStr}
        ELSE LET first == CHOOSE k \in hits : \A j \in hits : k <= j
             IN  {SomeStr(p) : p \in TestMatches(tree, TestName(first, stem, suffix))}

TreeEntry(path, type) == [path |-> path, type |-> type]

\* foo.py, foo.test, lib/foo.test, test_foo.py, foo_test.test, and a
\* directory named foo.spec.py
SampleEntries ==
    { TreeEntry(<<"f", "o", "o", ".", "p", "y">>, "blob"),
      TreeEntry(<<"f", "o", "o", ".", "t", "e", "s", "t">>, "blob"),
      TreeEntry(<<"l", "i", "b", "/", "f", "o", "o", ".", "t", "e", "s", "t">>, "blob"),
      TreeEntry(<<"t", "e", "s", "t", "_", "f", "o", "o", ".", "p", "y">>, "blob"),
      TreeEntry(<<"f", "o", "o", "_", "t", "e", "s", "t", ".", "t", "e", "s", "t">>, "blob"),
      TreeEntry(<<"f", "o", "o", ".", "s", "p", "e", "c", ".", "p", "y">>, "tree") }

\* The file under review is a tracked file of the tree at the head commit.
InitTestFile ==
    /\ patch_text = <<>>
    /\ scan = ScanInit
    /\ lookup = NoLookup
    /\ pr = [draft |-> FALSE, reviews |-> <<>>, review_comments |-> <<>>]
    /\ args = [review_draft_prs |-> FALSE, force_full |-> FALSE, shadow |-> FALSE,
               auto_confirm |-> FALSE, batch_limit |-> 1, model |-> "anthropic"]
    /\ pc = "idle"
    /\ loc = NoLocals
    /\ audit_log = <<>>
    /\ log = {}
    /\ frame = NoFrame
    /\ calls = <<>>
    /\ result = Running
    /\ gateway = NoGateway
    /\ cmd = NoCmd
    /\ \E tree \in SUBSET SampleEntries, file \in SampleEntries :
          /\ file \in tree
          /\ file.type = "blob"
          /\ context = [pc |-> "gather", file_path |-> file.path, tree |-> tree,
                        test_path |-> NoneStr,
                        repo_context |-> NoRendering.repo_context,
                        k |-> 0, returned |-> <<>>]

\* gather_context, lines 340-349: the test file is looked for, and its
\* content fetched when one is found; a GithubException leaves the context
\* without a test file.
GatherTestFile ==
    /\ context.pc = "gather"
    /\ \E test_path \in find_test_file(context.file_path, context.tree),
          content_fetch \in ContentFetches :
         /\ test_path.none => content_fetch = "ok"
         /\ context' =
              [context EXCEPT
                 !.pc = "gathered",
                 !.test_path = test_path,
                 !.repo_context.test_file_path =
                     IF ~test_path.none /\ test_path.v # <<>> /\ content_fetch = "ok"
                     THEN test_path
                     ELSE @]
         /\ calls' = calls \o (IF ~test_path.none /\ test_path.v # <<>>
                               THEN <<"get_contents">> ELSE <<>>)
    /\ UNCHANGED <<pr, args, pc, loc, audit_log, log, frame, result>>
    /\ UNCHANGED <<patchVars, gateway, cmd>>

NextTestFile == GatherTestFile

SpecTestFile == InitTestFile /\ [][NextTestFile]_vars

(***************************************************************************)
(* find_test_file (SpecTestFile).                                          *)
(***************************************************************************)
\* C29: find_test_file never returns the path of the file under review, and
\* the test file of the gathered context is a file other than the target.
C29_TestFileIsAnotherFile ==
    context.pc = "gathered" =>
        /\ context.test_path # SomeStr(context.file_path)
        /\ context.repo_context.test_file_path # SomeStr(context.file_path)


(***************************************************************************)
(* providers/base.py, review and _parse, with the loop of process_file     *)
(* that iterates what review returned.  SpecParse: the first call of       *)
(* _call_api returns any of the raw texts or raises, as the later ones do. *)
(***************************************************************************)

LeadTokens ==
    {<<>>, <<Fence, "\n">>, <<Fence, "json", "\n">>, <<"\n", Fence, "json", " ">>,
     <<Fence, "\n", Fence, "\n">>}

TrailTokens == {<<>>, <<"\n", Fence>>, <<"\n", Fence, "\n">>}

ModelTexts == JsonTexts \cup {"[5]", "{f1}", "{}", "5", "null"}

\* The raw texts of the model: a text, with fences and white space around it.
RawTexts ==
    {lead \o <<t>> \o trail : lead \in LeadTokens, t \in ModelTexts,
                              trail \in TrailTokens}

InitParse ==
    /\ patch_text = <<>>
    /\ scan = ScanInit
    /\ lookup = NoLookup
    /\ pr = [draft |-> FALSE, reviews |-> <<>>, review_comments |-> <<>>]
    /\ args = [review_draft_prs |-> FALSE, force_full |-> FALSE, shadow |-> FALSE,
               auto_confirm |-> FALSE, batch_limit |-> 1, model |-> "anthropic"]
    /\ pc = "review"
    /\ loc = NoLocals
    /\ audit_log = <<>>
    /\ log = {}
    /\ frame = NoFrame
    /\ calls = <<>>
    /\ result = Running
    /\ \E first \in {ApiRaises} \cup {ApiReturns(raw) : raw \in RawTexts} :
          gateway = [pc |-> "idle",
                     script |-> [i \in 1..MAX_RETRIES |->
                                    IF i = 1 THEN first ELSE ApiRaises],
                     attempt |-> 0, events |-> <<>>, findings |-> <<>>]
    /\ cmd = NoCmd
    /\ context = NoRendering

\* comment.get("line") on an element: an AttributeError unless it is an object.
IsObject(item) == item \in {"f1", "f2"}

\* process_file, lines 282-297: "for comment in comments" over what review
\* returned, comment.get(...) on each element.  Nothing catches what the
\* loop raises, here or in run_review.
IterateFindings ==
    /\ pc = "review"
    /\ gateway.pc = "returned"
    /\ LET comments == gateway.findings
       IN  result' =
             IF comments.type \notin {"list", "dict"}
             THEN Raised("TypeError")
             ELSE IF \E i \in 1..Len(comments.items) : ~IsObject(comments.items[i])
             THEN Raised("AttributeError")
             ELSE [kind |-> "iterated", n |-> Len(comments.items)]
    /\ pc' = "done"
    /\ UNCHANGED <<pr, args, loc, audit_log, log, frame, calls>>
    /\ UNCHANGED <<patchVars, sideVars>>

NextParse == Review \/ CallApiReturns \/ CallApiRaises \/ IterateFindings

SpecParse == InitParse /\ [][NextParse]_vars


\* The raw text the gateway parsed: what the first call of _call_api returned.
ParsedRaw == gateway.script[1].raw

\* The raw text without white space around it and without one leading and
\* one trailing fence.
Unfenced(raw) == SubTrailingFence(strip(SubLeadingFence(strip(raw))))

IsJsonArray(text) ==
    Len(text) = 1 /\ text[1] \in {"[]", "[f1]", "[f1, f2]", "[5]"}

\* C23: for every raw text of the model, review returns a list (the parsed
\* elements when the text, one leading and one trailing fence removed, is a
\* JSON array, the empty list otherwise), and the loop of process_file over
\* what review returned does not raise.
C23_ReviewReturnsAList ==
    /\ (gateway.pc = "returned" /\ ~gateway.script[1].raises) =>
          /\ gateway.findings.type = "list"
          /\ IF IsJsonArray(Unfenced(ParsedRaw))
             THEN gateway.findings = JsonLoads(Unfenced(ParsedRaw)[1]).value
             ELSE gateway.findings = PyList(<<>>)
    /\ pc = "done" => result.kind # "raised"


(***************************************************************************)
(* store/gist.py: GistStore.save called by separate runs that share one    *)
(* gist.  SpecGist: each run is in save, between its two requests: the     *)
(* fetch of the gist (_get_gist, _read_records) and gist.edit.  cmd.history *)
(* is the array in the gist's file, loc.runs the locals of each run.       *)
(***************************************************************************)

MaxRuns == 3

Runs == 1..MaxRuns

\* The record a run saves; run 0 stands for an earlier, finished run.
RecordOf(r) == [run |-> r]

InitGist ==
    /\ patch_text = <<>>
    /\ scan = ScanInit
    /\ lookup = NoLookup
    /\ pr = [draft |-> FALSE, reviews |-> <<>>, review_comments |-> <<>>]
    /\ args = [review_draft_prs |-> FALSE, force_full |-> FALSE, shadow |-> FALSE,
               auto_confirm |-> FALSE, batch_limit |-> 1, model |-> "anthropic"]
    /\ pc = "save"
    /\ \E stored \in {<<>>, <<RecordOf(0)>>} :
          /\ cmd = [NoCmd EXCEPT !.store = "gist", !.history = stored]
          /\ loc = [stored |-> stored,
                    runs |-> [r \in Runs |->
                                [pc |-> "save", existing |-> <<>>,
                                 record |-> RecordOf(r)]]]
    /\ audit_log = <<>>
    /\ log = {}
    /\ frame = NoFrame
    /\ calls = <<>>
    /\ result = Running
    /\ gateway = NoGateway
    /\ context = NoRendering

\* Lines 59-60: the run fetches the gist and reads the array of its file.
SaveRead ==
    \E r \in Runs :
        /\ loc.runs[r].pc = "save"
        /\ loc' = [loc EXCEPT !.runs[r].pc = "read",
                              !.runs[r].existing = cmd.history]
        /\ UNCHANGED <<pr, args, pc, audit_log, log, frame, calls, result>>
        /\ UNCHANGED <<patchVars, sideVars>>

\* Lines 61-62: the record is appended to the array that was read, and
\* gist.edit replaces the content of the file with it.
SaveEdit ==
    \E r \in Runs :
        /\ loc.runs[r].pc = "read"
        /\ cmd' = [cmd EXCEPT
                     !.history = Append(loc.runs[r].existing, loc.runs[r].record),
                     !.save_calls = @ + 1]
        /\ loc' = [loc EXCEPT !.runs[r].pc = "saved"]
        /\ UNCHANGED <<pr, args, pc, audit_log, log, frame, calls, result>>
        /\ UNCHANGED <<patchVars, gateway, context>>

\* Lines 63-76: either request raises; save prints the warning and returns.
SaveRaises ==
    \E r \in Runs :
        /\ loc.runs[r].pc \in {"save", "read"}
        /\ cmd' = [cmd EXCEPT !.warned = TRUE, !.save_calls = @ + 1]
        /\ loc' = [loc EXCEPT !.runs[r].pc = "failed"]
        /\ UNCHANGED <<pr, args, pc, audit_log, log, frame, calls, result>>
        /\ UNCHANGED <<patchVars, gateway, context>>

NextGist == SaveRead \/ SaveEdit \/ SaveRaises

SpecGist == InitGist /\ [][NextGist]_vars


\* The runs whose save completed without error.
SavedRuns == {r \in Runs : loc.runs[r].pc = "saved"}

\* C24: the file of the gist is append-only: every save that completed
\* without error added exactly one record and kept the records stored
\* before, so the file holds every record that was saved, whatever the
\* interleaving of the runs.
C24_AppendOnly ==
    /\ \A r \in SavedRuns : RecordOf(r) \in Range(cmd.history)
    /\ Range(loc.stored) \subseteq Range(cmd.history)
    /\ Len(cmd.history) = Len(loc.stored) + Cardinality(SavedRuns)

====
